---- MODULE Spec2Model ----
(***************************************************************************)
(* Model of the dependency extractor (extractPatternWithDependencies and   *)
(* the functions it calls).  A syntax tree is a sequence of top-level      *)
(* statements; every statement is a small tree of nodes listed in          *)
(* pre-order, each node naming its parent.  The parser, the printer, the   *)
(* RegExp engine and the file system are collaborators: they are modelled  *)
(* by what they return on the inputs enumerated here.                      *)
(***************************************************************************)
EXTENDS Integers, Sequences, FiniteSets, TLC

VARIABLES
  Tmpl,                \* the syntax tree the parser builds for each statement
  entryPoint,          \* the exported function the caller invoked
  namesArgument,       \* the names handed to extractByNames, else <<>>
  secondCall,          \* TRUE once the caller has repeated the call
  previous,            \* what the first call returned, once it is repeated
  sourceCode,          \* the entry module handed to the call
  patternRegex,        \* the RegExp handed to the call
  lastIndex,           \* patternRegex.lastIndex (state of the RegExp object)
  fs,                  \* the file system: path -> [kind, content]
  pc,                  \* position inside extractPatternWithDependencies
  ast,                 \* the parsed entry module
  importQueue,         \* import statements the import traversal still visits
  globalDeclarations,  \* the Map name -> DeclarationInfo, in insertion order
  resolvedImports,
  unresolvedImports,
  matchedPatterns,
  matchDetails,
  dependencies,
  nodesToInclude,
  previousDepsCount,
  currentDepsCount,
  iterations,
  result               \* <<>> until the call returns, then <<the result>>

vars == <<Tmpl, entryPoint, namesArgument, secondCall, previous, sourceCode,
          patternRegex, lastIndex, fs, pc, ast, importQueue,
          globalDeclarations, resolvedImports, unresolvedImports,
          matchedPatterns, matchDetails, dependencies, nodesToInclude,
          previousDepsCount, currentDepsCount, iterations, result>>

\* JavaScript's undefined / null, for string-valued fields.
NONE == "<none>"

\* Longest entry module (top-level statements) the model enumerates.
MaxStmts == 2

----------------------------------------------------------------------------
(* Syntax trees *)

Nd(type, name, parent) ==
  [type |-> type, name |-> name, parent |-> parent,
   source |-> NONE, referenced |-> FALSE, binding |-> FALSE, object |-> NONE]

\* An identifier used as a value (isReferencedIdentifier() is true).
Ref(name, parent) == [Nd("Identifier", name, parent) EXCEPT !.referenced = TRUE]

\* An identifier that introduces a binding (an import specifier's local).
Bind(name, parent) == [Nd("Identifier", name, parent) EXCEPT !.binding = TRUE]

\* An identifier that is neither (a member property, an exported name).
Prop(name, parent) == Nd("Identifier", name, parent)

\* object.property; object is NONE when the object is not an Identifier (this).
Member(object, parent) == [Nd("MemberExpression", NONE, parent) EXCEPT !.object = object]

Import(source) == [Nd("ImportDeclaration", NONE, 0) EXCEPT !.source = source]

\* The statements modules are built from, each with the syntax tree the parser
\* builds for it.  Node 1 is the statement itself.
SyntaxTrees ==
  [ helper |->        \* function helper() { return 1; }
      << Nd("FunctionDeclaration", "helper", 0) >>,
    target |->        \* function target() { return helper() + foo.bar; }
      << Nd("FunctionDeclaration", "target", 0),
         Ref("helper", 1),
         Member("foo", 1), Ref("foo", 3), Prop("bar", 3) >>,
    outer |->         \* function outer() { function inner() { return helper(); } return inner(); }
      << Nd("FunctionDeclaration", "outer", 0),
         Nd("FunctionDeclaration", "inner", 1), Ref("helper", 2),
         Ref("inner", 1) >>,
    classK |->        \* class K { m() { return helper(); } n() { return this.m(); } }
      << Nd("ClassDeclaration", "K", 0),
         Nd("ClassMethod", "m", 1), Ref("helper", 2),
         Nd("ClassMethod", "n", 1), Member(NONE, 4), Prop("m", 5) >>,
    classL |->        \* class L { m() { return K; } }
      << Nd("ClassDeclaration", "L", 0),
         Nd("ClassMethod", "m", 1), Ref("K", 2) >>,
    importFoo |->     \* import { foo } from "pkg";
      << Import("pkg"), Bind("foo", 1) >>,
    importAdd |->     \* import { add } from "./util";
      << Import("./util"), Bind("add", 1) >>,
    sum |->           \* function sum() { return add(1, 2); }
      << Nd("FunctionDeclaration", "sum", 0), Ref("add", 1) >>,
    exportDefaultK |-> \* export default K;
      << Nd("ExportDefaultDeclaration", NONE, 0), Ref("K", 1) >>,
    exportHelper |->  \* export { helper };
      << Nd("ExportNamedDeclaration", NONE, 0),
         Nd("ExportSpecifier", NONE, 1), Ref("helper", 2), Prop("helper", 2) >>,
    twice |->         \* const twice = () => helper();
      << Nd("VariableDeclaration", NONE, 0),
         Nd("VariableDeclarator", "twice", 1),
         Nd("ArrowFunctionExpression", NONE, 2), Ref("helper", 3) >>,
    maker |->         \* const maker = function () { function made() {} const v = sum; };
      << Nd("VariableDeclaration", NONE, 0),
         Nd("VariableDeclarator", "maker", 1),
         Nd("FunctionExpression", NONE, 2),
         Nd("FunctionDeclaration", "made", 3),
         Nd("VariableDeclaration", NONE, 3),
         Nd("VariableDeclarator", "v", 5), Ref("sum", 6) >>,
    exportAdd |->     \* export function add(a, b) { return low(a, b); }
      << Nd("ExportNamedDeclaration", NONE, 0),
         Nd("FunctionDeclaration", "add", 1), Ref("low", 2) >>,
    low |->           \* function low(a, b) { return a + b; }
      << Nd("FunctionDeclaration", "low", 0) >>,
    add |->           \* function add(a, b) { return a + b; }
      << Nd("FunctionDeclaration", "add", 0) >>,
    exportDefaultAdd |-> \* export default add;
      << Nd("ExportDefaultDeclaration", NONE, 0), Ref("add", 1) >>,
    callM |->         \* function callM() { return m(); }
      << Nd("FunctionDeclaration", "callM", 0), Ref("m", 1) >>,
    importLow |->     \* import { low } from "./lowlib";
      << Import("./lowlib"), Bind("low", 1) >>,
    importSelf |->    \* import { helper } from "./main";
      << Import("./main"), Bind("helper", 1) >>,
    exportDefaultHelper |-> \* export default helper;
      << Nd("ExportDefaultDeclaration", NONE, 0), Ref("helper", 1) >>,
    exportDefaultFn |-> \* export default function dflt() { return helper(); }
      << Nd("ExportDefaultDeclaration", NONE, 0),
         Nd("FunctionDeclaration", "dflt", 1), Ref("helper", 2) >>,
    exportDefaultClass |-> \* export default class Shape { area() { return helper(); } }
      << Nd("ExportDefaultDeclaration", NONE, 0),
         Nd("ClassDeclaration", "Shape", 1),
         Nd("ClassMethod", "area", 2), Ref("helper", 3) >>,
    exportDefaultValue |-> \* export default 42;
      << Nd("ExportDefaultDeclaration", NONE, 0), Nd("NumericLiteral", "42", 1) >>,
    limit |->         \* const limit = 5;
      << Nd("VariableDeclaration", NONE, 0),
         Nd("VariableDeclarator", "limit", 1), Nd("NumericLiteral", "5", 2) >>,
    pending |->       \* let pending;
      << Nd("VariableDeclaration", NONE, 0),
         Nd("VariableDeclarator", "pending", 1) >> ]

\* Source text the parser rejects.
Garbage == << "<syntax error>" >>

\* A syntax-tree node: tree k (0 = the entry module, i = the tree parseFile
\* built for the i-th statement of the entry), statement t, node n.
Node(k, t, n) == <<k, t, n>>

Children(t, n) == { m \in DOMAIN Tmpl[t] : Tmpl[t][m].parent = n }

RECURSIVE IsInside(_, _, _)
IsInside(t, m, n) ==
  /\ m # 0
  /\ Tmpl[t][m].parent # 0
  /\ \/ Tmpl[t][m].parent = n
     \/ IsInside(t, Tmpl[t][m].parent, n)

\* The nodes below n, in traversal (pre-)order.
Descendants(t, n) ==
  SelectSeq([i \in 1..Len(Tmpl[t]) |-> i], LAMBDA m : IsInside(t, m, n))

Without(todo, t, n) == SelectSeq(todo, LAMBDA m : ~IsInside(t, m, n))

FirstChild(t, n) ==
  IF Children(t, n) = {} THEN 0
  ELSE CHOOSE m \in Children(t, n) : \A o \in Children(t, n) : m <= o

RECURSIVE Flatten(_)
Flatten(ss) == IF ss = <<>> THEN <<>> ELSE Head(ss) \o Flatten(Tail(ss))

----------------------------------------------------------------------------
(* The printer: generate(node).code, as a sequence of tokens *)

ChildSeq(t, n) ==
  SelectSeq([i \in 1..Len(Tmpl[t]) |-> i], LAMBDA m : Tmpl[t][m].parent = n)

HeadTokens(t, n) ==
  LET nd == Tmpl[t][n] IN
  CASE nd.type = "FunctionDeclaration" ->
         IF nd.name = NONE THEN << "function" >> ELSE << "function", nd.name >>
    [] nd.type = "FunctionExpression" -> << "function" >>
    [] nd.type = "ArrowFunctionExpression" -> << "=>" >>
    [] nd.type = "VariableDeclaration" ->
         IF \E d \in Children(t, n) : Children(t, d) = {}
         THEN << "let" >> ELSE << "const" >>
    [] nd.type = "NumericLiteral" -> << nd.name >>
    [] nd.type = "VariableDeclarator" ->
         IF Children(t, n) = {} THEN << nd.name >> ELSE << nd.name, "=" >>
    [] nd.type = "ClassDeclaration" -> << "class", nd.name >>
    [] nd.type = "ClassMethod" -> << nd.name >>
    [] nd.type = "ImportDeclaration" -> << "import" >>
    [] nd.type = "ExportNamedDeclaration" -> << "export" >>
    [] nd.type = "ExportDefaultDeclaration" -> << "export", "default" >>
    [] nd.type = "Identifier" -> << nd.name >>
    [] nd.type = "MemberExpression" ->
         IF nd.object = NONE THEN << "this" >> ELSE <<>>
    [] OTHER -> <<>>

TailTokens(t, n) ==
  LET nd == Tmpl[t][n] IN
  IF nd.type = "ImportDeclaration" THEN << "from", nd.source >> ELSE <<>>

RECURSIVE generate(_, _)
generate(t, n) ==
  LET kids == ChildSeq(t, n) IN
  HeadTokens(t, n)
    \o Flatten([i \in 1..Len(kids) |-> generate(t, kids[i])])
    \o TailTokens(t, n)

\* generate(finalAst): the printed text of a list of nodes.
generateProgram(nodes) ==
  Flatten([i \in 1..Len(nodes) |-> generate(nodes[i][2], nodes[i][3])])

----------------------------------------------------------------------------
(* The Map name -> DeclarationInfo; keys keeps the insertion order *)

EmptyMap == [keys |-> <<>>, at |-> <<>>]

Has(map, key) == key \in DOMAIN map.at

\* A Map whose set keeps the value a key already has.
MapSetKeepingFirst(map, key, value) ==
  [keys |-> IF Has(map, key) THEN map.keys ELSE Append(map.keys, key),
   at |-> map.at @@ (key :> value)]

\* Map.prototype.set: the value replaces the one the key had; a new key goes
\* to the end of the iteration order.
MapSet(map, key, value) ==
  [keys |-> IF Has(map, key) THEN map.keys ELSE Append(map.keys, key),
   at |-> (key :> value) @@ map.at]

RECURSIVE ApplyWrites(_, _)
ApplyWrites(map, writes) ==
  IF writes = <<>> THEN map
  ELSE ApplyWrites(MapSet(map, Head(writes)[1], Head(writes)[2]), Tail(writes))

\* A DeclarationInfo.  depth is <<>> when the record has no depth field.
DeclarationInfo(node, type, path, source, parentFunction, depth, className, originalCode) ==
  [node |-> node, type |-> type, path |-> path, source |-> source,
   parentFunction |-> parentFunction, depth |-> depth, className |-> className,
   originalCode |-> originalCode]

----------------------------------------------------------------------------
(* The Declaration Indexer.  Each operator returns the declarations.set    *)
(* calls it makes, in order, as a sequence of <<key, DeclarationInfo>>.     *)

RECURSIVE findNestedPatternsInScopeVisit(_, _, _, _, _, _, _)
RECURSIVE findNestedPatternsInExpressionVisit(_, _, _, _, _, _, _)
RECURSIVE findClassMethodsVisit(_, _, _, _, _, _)

\* path.node.init?.type of a VariableDeclarator.
InitType(t, n) ==
  IF FirstChild(t, n) = 0 THEN NONE ELSE Tmpl[t][FirstChild(t, n)].type

IsFunctionInit(t, n) ==
  InitType(t, n) \in {"FunctionExpression", "ArrowFunctionExpression"}

\* scopePath.traverse({...}) of findNestedPatternsInScope, over the nodes todo.
findNestedPatternsInScopeVisit(k, t, todo, filePath, parentName, depth, className) ==
  IF todo = <<>> THEN <<>>
  ELSE
    LET n == Head(todo)
        nd == Tmpl[t][n]
        rest == Tail(todo)
    IN
    CASE nd.type = "FunctionDeclaration" ->
           (IF nd.name # NONE
            THEN << <<nd.name,
                      DeclarationInfo(Node(k, t, n), "nested-function", Node(k, t, n),
                                      filePath, parentName, <<depth>>, className,
                                      generate(t, n))>> >>
                 \o findNestedPatternsInScopeVisit(k, t, Descendants(t, n), filePath,
                                                   nd.name, depth + 1, className)
            ELSE <<>>)
           \o findNestedPatternsInScopeVisit(k, t, Without(rest, t, n), filePath,
                                             parentName, depth, className)
      [] nd.type = "VariableDeclarator" ->
           (IF nd.name # NONE /\ InitType(t, n) # NONE
            THEN << <<nd.name,
                      DeclarationInfo(Node(k, t, nd.parent),
                                      IF IsFunctionInit(t, n) THEN "nested-function"
                                                              ELSE "variable",
                                      Node(k, t, nd.parent),
                                      filePath, parentName, <<depth>>, className,
                                      generate(t, nd.parent))>> >>
                 \o (IF InitType(t, n) = "FunctionExpression"
                     THEN findNestedPatternsInExpressionVisit(
                            k, t, Descendants(t, FirstChild(t, n)), filePath,
                            nd.name, depth + 1, className)
                     ELSE <<>>)
            ELSE <<>>)
           \o findNestedPatternsInScopeVisit(k, t, rest, filePath,
                                             parentName, depth, className)
      [] nd.type = "ClassDeclaration" ->
           (IF nd.name # NONE
            THEN << <<nd.name,
                      DeclarationInfo(Node(k, t, n), "class", Node(k, t, n),
                                      filePath, parentName, <<depth>>, NONE,
                                      generate(t, n))>> >>
                 \o findClassMethodsVisit(k, t, Descendants(t, n), filePath,
                                          nd.name, depth + 1)
            ELSE <<>>)
           \o findNestedPatternsInScopeVisit(k, t, Without(rest, t, n), filePath,
                                             parentName, depth, className)
      [] OTHER ->
           findNestedPatternsInScopeVisit(k, t, rest, filePath,
                                          parentName, depth, className)

\* findNestedPatternsInScope(scopePath, ...): the traversal visits the nodes
\* below scopePath, never scopePath itself.
findNestedPatternsInScope(k, t, scope, filePath, parentName, depth, className) ==
  findNestedPatternsInScopeVisit(k, t, Descendants(t, scope), filePath,
                                 parentName, depth, className)

\* expressionPath.traverse({...}) of findNestedPatternsInExpression.
findNestedPatternsInExpressionVisit(k, t, todo, filePath, parentName, depth, className) ==
  IF todo = <<>> THEN <<>>
  ELSE
    LET n == Head(todo)
        nd == Tmpl[t][n]
        rest == Tail(todo)
    IN
    CASE nd.type = "FunctionDeclaration" ->
           (IF nd.name # NONE
            THEN << <<nd.name,
                      DeclarationInfo(Node(k, t, n), "nested-function", Node(k, t, n),
                                      filePath, parentName, <<depth>>, className,
                                      generate(t, n))>> >>
                 \o findNestedPatternsInScopeVisit(k, t, Descendants(t, n), filePath,
                                                   nd.name, depth + 1, className)
            ELSE <<>>)
           \o findNestedPatternsInExpressionVisit(k, t, Without(rest, t, n), filePath,
                                                  parentName, depth, className)
      [] nd.type = "VariableDeclarator" ->
           (IF nd.name # NONE /\ InitType(t, n) # NONE
            THEN << <<nd.name,
                      DeclarationInfo(Node(k, t, nd.parent),
                                      IF IsFunctionInit(t, n) THEN "nested-function"
                                                              ELSE "variable",
                                      Node(k, t, nd.parent),
                                      filePath, parentName, <<depth>>, className,
                                      generate(t, nd.parent))>> >>
            ELSE <<>>)
           \o findNestedPatternsInExpressionVisit(k, t, rest, filePath,
                                                  parentName, depth, className)
      [] OTHER ->
           findNestedPatternsInExpressionVisit(k, t, rest, filePath,
                                               parentName, depth, className)

findNestedPatternsInExpression(k, t, expr, filePath, parentName, depth, className) ==
  findNestedPatternsInExpressionVisit(k, t, Descendants(t, expr), filePath,
                                      parentName, depth, className)

\* The two declarations.set calls a method makes: Class.method, then method.
MethodWrites(className, name, info) ==
  << <<className \o "." \o name, info>>, <<name, info>> >>

\* classPath.traverse({ClassMethod}) of findClassMethods.
findClassMethodsVisit(k, t, todo, filePath, className, depth) ==
  IF todo = <<>> THEN <<>>
  ELSE
    LET n == Head(todo)
        nd == Tmpl[t][n]
        rest == Tail(todo)
    IN
    IF nd.type = "ClassMethod"
    THEN (IF nd.name # NONE
          THEN MethodWrites(className, nd.name,
                 DeclarationInfo(Node(k, t, n), "method", Node(k, t, n),
                                 filePath, NONE, <<>>, className, generate(t, n)))
               \o findNestedPatternsInScope(k, t, n, filePath, nd.name,
                                            depth + 1, className)
          ELSE <<>>)
         \o findClassMethodsVisit(k, t, Without(rest, t, n), filePath, className, depth)
    ELSE findClassMethodsVisit(k, t, rest, filePath, className, depth)

findClassMethods(k, t, class, filePath, className, depth) ==
  findClassMethodsVisit(k, t, Descendants(t, class), filePath, className, depth)

\* parentFunction and depth are set on a record only under a parentFunction.
OuterInfo(node, type, path, filePath, parentFunction, depth, className, originalCode) ==
  DeclarationInfo(node, type, path, filePath, parentFunction,
                  IF parentFunction # NONE THEN <<depth>> ELSE <<>>,
                  className, originalCode)

\* FunctionDeclaration(path) of findAllDeclarations.
FunctionDeclarationVisitor(k, t, n, filePath, parentFunction, depth, className) ==
  LET nd == Tmpl[t][n] IN
  IF nd.name # NONE
  THEN << <<nd.name,
            OuterInfo(Node(k, t, n),
                      IF parentFunction # NONE THEN "nested-function" ELSE "function",
                      Node(k, t, n), filePath, parentFunction, depth, className,
                      generate(t, n))>> >>
       \o findNestedPatternsInScope(k, t, n, filePath, nd.name, depth + 1, className)
  ELSE <<>>

\* VariableDeclaratorVisitor recording a function expression like an arrow
\* function.
VariableDeclaratorVisitorFunctionInit(k, t, n, filePath, parentFunction, depth, className) ==
  LET nd == Tmpl[t][n] IN
  IF nd.name # NONE
  THEN << <<nd.name,
            OuterInfo(Node(k, t, nd.parent),
                      IF IsFunctionInit(t, n)
                      THEN "arrow-function" ELSE "variable",
                      Node(k, t, nd.parent), filePath, parentFunction, depth,
                      className, generate(t, nd.parent))>> >>
       \o (IF InitType(t, n) = "FunctionExpression"
           THEN findNestedPatternsInExpression(k, t, FirstChild(t, n), filePath,
                                               nd.name, depth + 1, className)
           ELSE <<>>)
  ELSE <<>>

\* VariableDeclarator(path) of findAllDeclarations.
VariableDeclaratorVisitor(k, t, n, filePath, parentFunction, depth, className) ==
  LET nd == Tmpl[t][n] IN
  IF nd.name # NONE
  THEN << <<nd.name,
            OuterInfo(Node(k, t, nd.parent),
                      IF InitType(t, n) = "ArrowFunctionExpression"
                      THEN "arrow-function" ELSE "variable",
                      Node(k, t, nd.parent), filePath, parentFunction, depth,
                      className, generate(t, nd.parent))>> >>
       \o (IF InitType(t, n) = "FunctionExpression"
           THEN findNestedPatternsInExpression(k, t, FirstChild(t, n), filePath,
                                               nd.name, depth + 1, className)
           ELSE <<>>)
  ELSE <<>>

\* ClassDeclaration(path) of findAllDeclarations.
ClassDeclarationVisitor(k, t, n, filePath, parentFunction, depth, className) ==
  LET nd == Tmpl[t][n] IN
  IF nd.name # NONE
  THEN << <<nd.name,
            OuterInfo(Node(k, t, n), "class", Node(k, t, n), filePath,
                      parentFunction, depth, NONE, generate(t, n))>> >>
       \o findClassMethods(k, t, n, filePath, nd.name, depth)
  ELSE <<>>

\* ClassMethod(path) of findAllDeclarations: acts only under a className.
ClassMethodVisitor(k, t, n, filePath, parentFunction, depth, className) ==
  LET nd == Tmpl[t][n] IN
  IF className # NONE /\ nd.name # NONE
  THEN MethodWrites(className, nd.name,
         OuterInfo(Node(k, t, n), "method", Node(k, t, n), filePath,
                   parentFunction, depth, className, generate(t, n)))
       \o findNestedPatternsInScope(k, t, n, filePath, nd.name, depth + 1, className)
  ELSE <<>>

\* The name and type ExportNamedDeclaration derives from path.node.declaration d.
ExportedName(t, d) ==
  LET dt == Tmpl[t][d].type IN
  IF dt \in {"FunctionDeclaration", "ClassDeclaration"} THEN Tmpl[t][d].name
  ELSE IF dt = "VariableDeclaration" /\ FirstChild(t, d) # 0
       THEN Tmpl[t][FirstChild(t, d)].name
       ELSE NONE

ExportedType(t, d) ==
  LET dt == Tmpl[t][d].type IN
  CASE dt = "FunctionDeclaration" -> "function"
    [] dt = "ClassDeclaration" -> "class"
    [] dt = "VariableDeclaration" ->
         IF FirstChild(t, d) # 0
            /\ InitType(t, FirstChild(t, d)) = "ArrowFunctionExpression"
         THEN "arrow-function" ELSE "variable"
    [] OTHER -> "named-export"

\* ExportNamedDeclaration(path) of findAllDeclarations.
ExportNamedDeclarationVisitor(k, t, n, filePath, parentFunction, depth, className) ==
  LET kids == ChildSeq(t, n)
      decls == SelectSeq(kids, LAMBDA m : Tmpl[t][m].type # "ExportSpecifier")
      specs == SelectSeq(kids, LAMBDA m : Tmpl[t][m].type = "ExportSpecifier")
  IN
  (IF decls # <<>> /\ ExportedName(t, decls[1]) # NONE
   THEN << <<ExportedName(t, decls[1]),
             OuterInfo(Node(k, t, decls[1]), ExportedType(t, decls[1]),
                       Node(k, t, n), filePath, parentFunction, depth, className,
                       generate(t, n))>> >>
   ELSE <<>>)
  \o [i \in 1..Len(specs) |->
        <<Tmpl[t][FirstChild(t, specs[i])].name,
          DeclarationInfo(Node(k, t, n), "named-export", Node(k, t, n), filePath,
                          NONE, <<>>, NONE, generate(t, n))>>]

\* ExportDefaultDeclarationVisitor writing the key "default" only.
ExportDefaultDeclarationVisitorDefaultOnly(k, t, n, filePath) ==
  LET d == Tmpl[t][FirstChild(t, n)]
      type == CASE d.type = "FunctionDeclaration" -> "function"
                [] d.type = "ClassDeclaration" -> "class"
                [] OTHER -> "default-export"
      info == DeclarationInfo(Node(k, t, n), type, Node(k, t, n), filePath,
                              NONE, <<>>, NONE, generate(t, n))
  IN << <<"default", info>> >>

\* ExportDefaultDeclaration(path) of findAllDeclarations.
ExportDefaultDeclarationVisitor(k, t, n, filePath) ==
  LET d == Tmpl[t][FirstChild(t, n)]
      name == CASE d.type \in {"FunctionDeclaration", "ClassDeclaration"} ->
                     IF d.name # NONE THEN d.name ELSE "default"
                [] d.type = "Identifier" -> d.name
                [] OTHER -> "default"
      type == CASE d.type = "FunctionDeclaration" -> "function"
                [] d.type = "ClassDeclaration" -> "class"
                [] OTHER -> "default-export"
      info == DeclarationInfo(Node(k, t, n), type, Node(k, t, n), filePath,
                              NONE, <<>>, NONE, generate(t, n))
  IN << <<name, info>>, <<"default", info>> >>

\* What traverse(ast, {...}) of findAllDeclarations does on entering node n.
Visitor(k, t, n, filePath, parentFunction, depth, className) ==
  LET ty == Tmpl[t][n].type IN
  CASE ty = "FunctionDeclaration" ->
         FunctionDeclarationVisitor(k, t, n, filePath, parentFunction, depth, className)
    [] ty = "VariableDeclarator" ->
         VariableDeclaratorVisitor(k, t, n, filePath, parentFunction, depth, className)
    [] ty = "ClassDeclaration" ->
         ClassDeclarationVisitor(k, t, n, filePath, parentFunction, depth, className)
    [] ty = "ClassMethod" ->
         ClassMethodVisitor(k, t, n, filePath, parentFunction, depth, className)
    [] ty = "ExportNamedDeclaration" ->
         ExportNamedDeclarationVisitor(k, t, n, filePath, parentFunction, depth, className)
    [] ty = "ExportDefaultDeclaration" ->
         ExportDefaultDeclarationVisitor(k, t, n, filePath)
    [] OTHER -> <<>>

\* traverse(ast, {...}): every node of every statement, in pre-order; no
\* visitor of findAllDeclarations calls path.skip().
findAllDeclarations(k, stmts, filePath, parentFunction, depth, className) ==
  Flatten([i \in 1..Len(stmts) |->
    Flatten([n \in 1..Len(Tmpl[stmts[i]]) |->
      Visitor(k, stmts[i], n, filePath, parentFunction, depth, className)])])

----------------------------------------------------------------------------
(* The parser *)

\* The names statement t binds at module level.
TopBindings(t) ==
  LET nd == Tmpl[t][1]
      under(n) == { Tmpl[t][m].name : m \in Children(t, n) }
  IN
  CASE nd.type \in {"FunctionDeclaration", "ClassDeclaration"} -> {nd.name}
    [] nd.type = "VariableDeclaration" -> under(1)
    [] nd.type = "ImportDeclaration" -> under(1)
    [] nd.type = "ExportDefaultDeclaration" ->
         { Tmpl[t][d].name :
             d \in { m \in Children(t, 1) :
                       Tmpl[t][m].type \in {"FunctionDeclaration", "ClassDeclaration"} } }
    [] nd.type = "ExportNamedDeclaration" ->
         UNION { IF Tmpl[t][d].type \in {"FunctionDeclaration", "ClassDeclaration"}
                 THEN {Tmpl[t][d].name}
                 ELSE IF Tmpl[t][d].type = "VariableDeclaration" THEN under(d)
                 ELSE {} : d \in Children(t, 1) }
    [] OTHER -> {}

\* The local names statement t exports through a specifier list.
ExportedLocals(t) ==
  { Tmpl[t][FirstChild(t, s)].name :
      s \in { m \in Children(t, 1) : Tmpl[t][m].type = "ExportSpecifier" } }

\* parser.parse(text, {sourceType: "module", ...}) succeeds: the text is a
\* module, binds no name twice, has at most one default export and exports
\* only names it declares.
Parses(text) ==
  /\ \A i \in 1..Len(text) : text[i] \in DOMAIN Tmpl
  /\ \A i, j \in 1..Len(text) :
       i # j => /\ text[i] # text[j]
                /\ TopBindings(text[i]) \cap TopBindings(text[j]) = {}
                /\ ~(/\ Tmpl[text[i]][1].type = "ExportDefaultDeclaration"
                     /\ Tmpl[text[j]][1].type = "ExportDefaultDeclaration")
  /\ \A i \in 1..Len(text) :
       ExportedLocals(text[i]) \subseteq UNION { TopBindings(text[j]) : j \in 1..Len(text) }

----------------------------------------------------------------------------
(* The Import Resolver *)

\* currentFilePath of the call, and path.dirname of it.
CurrentFilePath == "/proj/main.js"
BaseDir == "/proj"

extensions == << ".js", ".ts", ".jsx", ".tsx", ".mjs" >>

\* importPath.startsWith("./") || importPath.startsWith("../")
IsRelative(importPath) == importPath \in {"./util", "./lowlib", "./main"}

\* path.resolve(baseDir, importPath) for the relative specifiers in use.
PathResolve(baseDir, importPath) ==
  CASE importPath = "./util" -> baseDir \o "/util"
    [] importPath = "./lowlib" -> baseDir \o "/lowlib"
    [] importPath = "./main" -> baseDir \o "/main"
    [] OTHER -> baseDir \o "/" \o importPath

existsSync(files, p) == p \in DOMAIN files
IsFile(files, p) == files[p].kind = "file"

\* The last candidate base + ext that exists, in the order of exts, or NONE.
RECURSIVE LastExisting(_, _, _)
LastExisting(files, base, exts) ==
  IF exts = <<>> THEN NONE
  ELSE IF existsSync(files, base \o exts[Len(exts)]) THEN base \o exts[Len(exts)]
  ELSE LastExisting(files, base, SubSeq(exts, 1, Len(exts) - 1))

\* The first candidate base + ext that exists, in the order of exts, or NONE.
RECURSIVE FirstExisting(_, _, _)
FirstExisting(files, base, exts) ==
  IF exts = <<>> THEN NONE
  ELSE IF existsSync(files, base \o Head(exts)) THEN base \o Head(exts)
  ELSE FirstExisting(files, base, Tail(exts))

\* require.resolve(importPath, {paths: [baseDir]}): the host resolver.
RequireResolve(env, importPath) ==
  IF importPath \in DOMAIN env.packages THEN env.packages[importPath] ELSE NONE

resolveImportPath(env, importPath, currentFilePath) ==
  LET baseDir == BaseDir
      basePath == PathResolve(baseDir, importPath)
      withExt == FirstExisting(env.files, basePath, extensions)
      asIndex == FirstExisting(env.files, basePath \o "/index", extensions)
  IN
  IF IsRelative(importPath) /\ existsSync(env.files, basePath) /\ IsFile(env.files, basePath)
  THEN basePath
  ELSE IF IsRelative(importPath) /\ withExt # NONE THEN withExt
  ELSE IF IsRelative(importPath) /\ asIndex # NONE THEN asIndex
  ELSE RequireResolve(env, importPath)

\* parseFile indexing, after the file's own declarations, the declarations of
\* the files its import statements resolve to.
parseFileFollowingImports(env, k, filePath) ==
  IF /\ existsSync(env.files, filePath)
     /\ IsFile(env.files, filePath)
     /\ Parses(env.files[filePath].content)
  THEN LET content == env.files[filePath].content
           target(n) == resolveImportPath(env, Tmpl[content[n]][1].source, filePath)
           writes[n \in 0..Len(content)] ==
             IF n = 0
             THEN findAllDeclarations(k, content, filePath, NONE, 0, NONE)
             ELSE IF /\ Tmpl[content[n]][1].type = "ImportDeclaration"
                     /\ target(n) \notin {NONE, filePath}
                     /\ existsSync(env.files, target(n))
                     /\ IsFile(env.files, target(n))
                     /\ Parses(env.files[target(n)].content)
                  THEN writes[n - 1]
                       \o findAllDeclarations(k, env.files[target(n)].content,
                                              target(n), NONE, 0, NONE)
                  ELSE writes[n - 1]
       IN [ok |-> TRUE, declarations |-> ApplyWrites(EmptyMap, writes[Len(content)])]
  ELSE [ok |-> FALSE, declarations |-> EmptyMap]

\* parseFile(filePath): [ok |-> TRUE, declarations |-> Map], or null.  k names
\* the syntax tree this parse builds.
parseFile(env, k, filePath) ==
  IF /\ existsSync(env.files, filePath)
     /\ IsFile(env.files, filePath)
     /\ Parses(env.files[filePath].content)
  THEN [ok |-> TRUE,
        declarations |->
          ApplyWrites(EmptyMap,
                      findAllDeclarations(k, env.files[filePath].content, filePath,
                                          NONE, 0, NONE))]
  ELSE [ok |-> FALSE, declarations |-> EmptyMap]

File(content) == [kind |-> "file", content |-> content]
Directory == [kind |-> "dir", content |-> <<>>]

\* The file systems the model enumerates.
\* A disk without files or packages.
NoFiles == [files |-> <<>>, packages |-> <<>>]

FileSystems ==
  { NoFiles,
    [files |-> ("/proj/util.js" :> File(<<"exportAdd", "low">>))
               @@ ("/proj/node_modules/pkg/index.js" :> File(<<"low", "classK">>)),
     packages |-> ("pkg" :> "/proj/node_modules/pkg/index.js")],
    [files |-> ("/proj/util.js" :> File(Garbage))
               @@ ("/proj/node_modules/pkg/index.js" :> File(<<"low", "classK">>)),
     packages |-> ("pkg" :> "/proj/node_modules/pkg/index.js")],
    [files |-> ("/proj/util" :> Directory)
               @@ ("/proj/util.ts" :> File(<<"add", "exportDefaultAdd">>))
               @@ ("/proj/util/index.js" :> File(<<"helper">>)),
     packages |-> <<>>],
    [files |-> ("/proj/util.js" :> File(<<"importLow", "exportAdd">>))
               @@ ("/proj/lowlib.js" :> File(<<"importAdd", "low">>)),
     packages |-> <<>>] }

----------------------------------------------------------------------------
(* The RegExp object *)

\* A RegExp: the token sequences it looks for (the alternatives of a | in
\* the order written), whether it is anchored at the start of the text (^),
\* and whether it carries the g flag.
Regex(alternatives, anchored, global) ==
  [alternatives |-> alternatives, anchored |-> anchored, global |-> global]

Patterns ==
  { Regex(<< << "helper" >> >>, FALSE, FALSE),
    Regex(<< << "function", "target" >> >>, TRUE, FALSE),
    Regex(<< << "function", "inner" >> >>, TRUE, FALSE),
    Regex(<< << "function", "sum" >> >>, TRUE, FALSE),
    Regex(<< << "m" >> >>, TRUE, FALSE),
    Regex(<< << "n" >> >>, TRUE, FALSE),
    Regex(<< << "foo" >> >>, FALSE, FALSE),
    Regex(<< << "add" >> >>, FALSE, TRUE),
    Regex(<< << "helper" >> >>, TRUE, FALSE),
    Regex(<< << "function", "callM" >> >>, TRUE, FALSE) }

\* The alternatives of regex that match text at offset p.
AlternativesAt(regex, text, p) ==
  { a \in 1..Len(regex.alternatives) :
      /\ p + Len(regex.alternatives[a]) <= Len(text)
      /\ SubSeq(text, p + 1, p + Len(regex.alternatives[a])) = regex.alternatives[a] }

\* The length of the match at offset p: the first alternative that matches.
MatchLength(regex, text, p) ==
  Len(regex.alternatives[CHOOSE a \in AlternativesAt(regex, text, p) :
                           \A b \in AlternativesAt(regex, text, p) : a <= b])

\* The offsets at or after from where regex matches text.
MatchOffsets(regex, text, from) ==
  { p \in from..Len(text) :
      /\ AlternativesAt(regex, text, p) # {}
      /\ regex.anchored => p = 0 }

\* RegexTest with the ^ anchor ignored.
RegexTestUnanchored(regex, text, idx) ==
  LET from == IF regex.global THEN idx ELSE 0
      hits == { p \in from..Len(text) : AlternativesAt(regex, text, p) # {} }
      first == CHOOSE p \in hits : \A q \in hits : p <= q
  IN
  IF hits = {}
  THEN [matched |-> FALSE, lastIndex |-> IF regex.global THEN 0 ELSE idx]
  ELSE [matched |-> TRUE,
        lastIndex |-> IF regex.global THEN first + MatchLength(regex, text, first)
                      ELSE idx]

\* regex.test(text) with regex.lastIndex = idx: the answer and the new lastIndex.
RegexTest(regex, text, idx) ==
  LET from == IF regex.global THEN idx ELSE 0
      hits == MatchOffsets(regex, text, from)
      first == CHOOSE p \in hits : \A q \in hits : p <= q
  IN
  IF hits = {}
  THEN [matched |-> FALSE, lastIndex |-> IF regex.global THEN 0 ELSE idx]
  ELSE [matched |-> TRUE,
        lastIndex |-> IF regex.global THEN first + MatchLength(regex, text, first)
                      ELSE idx]

\* names.map(name => `\b${name}\b`): one alternative per name, in order.
NameAlternatives(names) == [i \in 1..Len(names) |-> << names[i] >>]

\* extractByNames(code, names, currentFilePath): the RegExp it builds from
\* names and hands to extractPatternWithDependencies.
extractByNames(names) == Regex(NameAlternatives(names), FALSE, FALSE)

\* The names arguments of extractByNames the model enumerates.
NameLists == { << "add", "sum" >> }

----------------------------------------------------------------------------
(* Set: an insertion-ordered sequence without repetitions *)

Range(seq) == { seq[i] : i \in 1..Len(seq) }

\* SetAdd as Array.prototype.push: no membership test.
SetAddDuplicating(set, x) == Append(set, x)

\* Set.prototype.add on an insertion-ordered set.
SetAdd(set, x) == IF x \in Range(set) THEN set ELSE Append(set, x)

----------------------------------------------------------------------------
(* The Dependency Closure Engine *)

\* DependencyVisitor without the isReferencedIdentifier() test.
DependencyVisitorAnyIdentifier(t, n, deps, allDeclarations) ==
  LET nd == Tmpl[t][n] IN
  CASE nd.type = "Identifier" ->
         IF /\ Has(allDeclarations, nd.name)
            /\ nd.name \notin Range(deps)
         THEN Append(deps, nd.name) ELSE deps
    [] nd.type = "MemberExpression" ->
         IF /\ nd.object # NONE
            /\ Has(allDeclarations, nd.object)
            /\ nd.object \notin Range(deps)
         THEN Append(deps, nd.object) ELSE deps
    [] OTHER -> deps

\* DependencyVisitor without the allDeclarations.has(name) tests.
DependencyVisitorUnknownNames(t, n, deps, allDeclarations) ==
  LET nd == Tmpl[t][n] IN
  CASE nd.type = "Identifier" ->
         IF /\ nd.referenced
            /\ ~nd.binding
            /\ nd.name \notin Range(deps)
         THEN Append(deps, nd.name) ELSE deps
    [] nd.type = "MemberExpression" ->
         IF /\ nd.object # NONE
            /\ nd.object \notin Range(deps)
         THEN Append(deps, nd.object) ELSE deps
    [] OTHER -> deps

\* What the Identifier and MemberExpression visitors of findDependenciesInNode
\* do on node n of statement t.
DependencyVisitor(t, n, deps, allDeclarations) ==
  LET nd == Tmpl[t][n] IN
  CASE nd.type = "Identifier" ->
         IF /\ nd.referenced
            /\ ~nd.binding
            /\ Has(allDeclarations, nd.name)
            /\ nd.name \notin Range(deps)
         THEN Append(deps, nd.name) ELSE deps
    [] nd.type = "MemberExpression" ->
         IF /\ nd.object # NONE
            /\ Has(allDeclarations, nd.object)
            /\ nd.object \notin Range(deps)
         THEN Append(deps, nd.object) ELSE deps
    [] OTHER -> deps

RECURSIVE findDependenciesVisit(_, _, _, _)
findDependenciesVisit(t, todo, deps, allDeclarations) ==
  IF todo = <<>> THEN deps
  ELSE findDependenciesVisit(t, Tail(todo),
                             DependencyVisitor(t, Head(todo), deps, allDeclarations),
                             allDeclarations)

\* findDependenciesInNode(path, dependencies, allDeclarations): path.traverse
\* visits the nodes below path.
findDependenciesInNode(path, deps, allDeclarations) ==
  findDependenciesVisit(path[2], Descendants(path[2], path[3]), deps, allDeclarations)

\* Characters of originalCode a match detail keeps.
SnippetLength == 200

codeSnippet(originalCode) ==
  SubSeq(originalCode, 1, IF Len(originalCode) > SnippetLength
                          THEN SnippetLength ELSE Len(originalCode))
    \o (IF Len(originalCode) > SnippetLength THEN << "..." >> ELSE <<>>)

\* SeedNodes without the class side-rule, as in the fixpoint loop.
SeedNodesNoClass(nodes, declaration, allDeclarations) ==
  LET withParent ==
        IF /\ declaration.type = "nested-function"
           /\ declaration.parentFunction # NONE
           /\ Has(allDeclarations, declaration.parentFunction)
        THEN SetAdd(nodes, allDeclarations.at[declaration.parentFunction].node)
        ELSE nodes
  IN SetAdd(withParent, declaration.node)

\* The nodes the seed loop adds for a matching declaration: the parent
\* function's node, the class's node, then the declaration's own node.
SeedNodes(nodes, declaration, allDeclarations) ==
  LET withParent ==
        IF /\ declaration.type = "nested-function"
           /\ declaration.parentFunction # NONE
           /\ Has(allDeclarations, declaration.parentFunction)
        THEN SetAdd(nodes, allDeclarations.at[declaration.parentFunction].node)
        ELSE nodes
      withClass ==
        IF /\ declaration.className # NONE
           /\ Has(allDeclarations, declaration.className)
        THEN SetAdd(withParent, allDeclarations.at[declaration.className].node)
        ELSE withParent
  IN SetAdd(withClass, declaration.node)

\* One call of the callback of globalDeclarations.forEach (the seed loop).
\* acc carries lastIndex and the four collections the callback updates.
MatchDeclaration(acc, name, regex, allDeclarations) ==
  LET declaration == allDeclarations.at[name]
      test == RegexTest(regex, declaration.originalCode, acc.lastIndex)
  IN
  IF test.matched
  THEN [lastIndex |-> test.lastIndex,
        matchedPatterns |-> SetAdd(acc.matchedPatterns, name),
        matchDetails |->
          Append(acc.matchDetails,
                 [name |-> name, type |-> declaration.type,
                  parentFunction |-> declaration.parentFunction,
                  className |-> declaration.className,
                  depth |-> IF declaration.depth = <<>> THEN 0 ELSE declaration.depth[1],
                  codeSnippet |-> codeSnippet(declaration.originalCode)]),
        nodesToInclude |-> SeedNodes(acc.nodesToInclude, declaration, allDeclarations),
        dependencies |->
          findDependenciesInNode(declaration.path, acc.dependencies, allDeclarations)]
  ELSE [acc EXCEPT !.lastIndex = test.lastIndex]

RECURSIVE MatchAll(_, _, _, _)
MatchAll(acc, names, regex, allDeclarations) ==
  IF names = <<>> THEN acc
  ELSE MatchAll(MatchDeclaration(acc, Head(names), regex, allDeclarations),
                Tail(names), regex, allDeclarations)

\* The nodes one dependency adds inside the fixpoint loop.
DependencyNodes(nodes, declaration, allDeclarations) ==
  LET own == SetAdd(nodes, declaration.node) IN
  IF /\ declaration.type = "nested-function"
     /\ declaration.parentFunction # NONE
     /\ Has(allDeclarations, declaration.parentFunction)
  THEN SetAdd(own, allDeclarations.at[declaration.parentFunction].node)
  ELSE own

\* ProcessDependency without the scan of the dependency's own references.
ProcessDependencyNoScan(acc, depName, allDeclarations) ==
  IF Has(allDeclarations, depName) /\ allDeclarations.at[depName].type # "import"
  THEN [nodesToInclude |->
          DependencyNodes(acc.nodesToInclude, allDeclarations.at[depName], allDeclarations),
        dependencies |-> acc.dependencies]
  ELSE acc

\* One call of the callback of currentDeps.forEach.
ProcessDependency(acc, depName, allDeclarations) ==
  IF Has(allDeclarations, depName) /\ allDeclarations.at[depName].type # "import"
  THEN [nodesToInclude |->
          DependencyNodes(acc.nodesToInclude, allDeclarations.at[depName], allDeclarations),
        dependencies |->
          findDependenciesInNode(allDeclarations.at[depName].path,
                                 acc.dependencies, allDeclarations)]
  ELSE acc

RECURSIVE ProcessAll(_, _, _)
ProcessAll(acc, currentDeps, allDeclarations) ==
  IF currentDeps = <<>> THEN acc
  ELSE ProcessAll(ProcessDependency(acc, Head(currentDeps), allDeclarations),
                  Tail(currentDeps), allDeclarations)

\* spec.local.name of the specifiers of import statement t.
ImportLocals(t) ==
  LET kids == ChildSeq(t, 1) IN [i \in 1..Len(kids) |-> Tmpl[t][kids[i]].name]

\* RetainImport without the usedImports.length > 0 test.
RECURSIVE RetainImportUnfiltered(_, _, _, _, _)
RetainImportUnfiltered(nodes, tree, i, importPath, deps) ==
  IF i > Len(tree) THEN nodes
  ELSE RetainImportUnfiltered(
         IF /\ Tmpl[tree[i]][1].type = "ImportDeclaration"
            /\ Tmpl[tree[i]][1].source = importPath
         THEN SetAdd(nodes, Node(0, tree[i], 1)) ELSE nodes,
         tree, i + 1, importPath, deps)

\* traverse(ast, {ImportDeclaration}) for one unresolved importPath: every
\* import statement of that source with a used local name is added.
RECURSIVE RetainImport(_, _, _, _, _)
RetainImport(nodes, tree, i, importPath, deps) ==
  IF i > Len(tree) THEN nodes
  ELSE RetainImport(
         IF /\ Tmpl[tree[i]][1].type = "ImportDeclaration"
            /\ Tmpl[tree[i]][1].source = importPath
            /\ \E j \in 1..Len(ImportLocals(tree[i])) :
                 ImportLocals(tree[i])[j] \in Range(deps)
         THEN SetAdd(nodes, Node(0, tree[i], 1)) ELSE nodes,
         tree, i + 1, importPath, deps)

\* RetainAll visiting the import statements of every specifier, resolved
\* ones included.
RetainAllSpecifiers(nodes, tree, unresolved, deps) ==
  LET kept[i \in 0..Len(tree)] ==
        IF i = 0 THEN nodes
        ELSE IF /\ Tmpl[tree[i]][1].type = "ImportDeclaration"
                /\ \E j \in 1..Len(ImportLocals(tree[i])) :
                     ImportLocals(tree[i])[j] \in Range(deps)
             THEN SetAdd(kept[i - 1], Node(0, tree[i], 1))
             ELSE kept[i - 1]
  IN kept[Len(tree)]

\* unresolvedImports.forEach(importPath => traverse(ast, {ImportDeclaration}))
RECURSIVE RetainAll(_, _, _, _)
RetainAll(nodes, tree, unresolved, deps) ==
  IF unresolved = <<>> THEN nodes
  ELSE RetainAll(RetainImport(nodes, tree, 1, Head(unresolved), deps),
                 tree, Tail(unresolved), deps)

----------------------------------------------------------------------------
(* extractPatternWithDependencies(sourceCode, patternRegex, currentFilePath) *)

\* The statements an entry module is made of.
EntryStatements ==
  { "helper", "target", "outer", "classK", "classL", "importFoo", "importAdd",
    "sum", "exportDefaultK", "exportHelper", "twice", "maker", "callM" }

\* The entry modules: up to MaxStmts different statements in any order, and
\* one text that is no module.
EntrySources ==
  { s \in UNION { [1..m -> EntryStatements] : m \in 0..MaxStmts } :
      \A i, j \in 1..Len(s) : i # j => s[i] # s[j] }
  \cup { Garbage }

\* text has an import statement.
HasImports(text) ==
  /\ text # Garbage
  /\ \E i \in 1..Len(text) : SyntaxTrees[text[i]][1].type = "ImportDeclaration"

\* The first call: extractPatternWithDependencies with a RegExp of the
\* caller, or extractByNames, which builds the RegExp from names.  The file
\* system is read only to resolve the import statements of the entry module,
\* so an entry module without import statements runs on the empty disk.
Init ==
  /\ Tmpl = SyntaxTrees
  /\ sourceCode \in EntrySources
  /\ \/ /\ entryPoint = "extractPatternWithDependencies"
        /\ namesArgument = <<>>
        /\ patternRegex \in Patterns
     \/ /\ entryPoint = "extractByNames"
        /\ namesArgument \in NameLists
        /\ patternRegex = extractByNames(namesArgument)
  /\ secondCall = FALSE
  /\ previous = <<>>
  /\ lastIndex = 0
  /\ fs \in (IF HasImports(sourceCode) THEN FileSystems ELSE {NoFiles})
  /\ pc = "parse"
  /\ ast = <<>>
  /\ importQueue = <<>>
  /\ globalDeclarations = EmptyMap
  /\ resolvedImports = <<>>
  /\ unresolvedImports = <<>>
  /\ matchedPatterns = <<>>
  /\ matchDetails = <<>>
  /\ dependencies = <<>>
  /\ nodesToInclude = <<>>
  /\ previousDepsCount = 0
  /\ currentDepsCount = 0
  /\ iterations = 0
  /\ result = <<>>

\* ParseEntry with the parse error swallowed: the call goes on with an
\* empty syntax tree.
ParseEntrySwallowing ==
  /\ pc = "parse"
  /\ IF Parses(sourceCode)
     THEN /\ ast' = sourceCode
          /\ pc' = "index"
     ELSE /\ ast' = <<>>
          /\ pc' = "index"
  /\ UNCHANGED <<Tmpl, entryPoint, namesArgument, secondCall, previous>>
  /\ UNCHANGED <<sourceCode, patternRegex, lastIndex, fs, importQueue,
                 globalDeclarations, resolvedImports, unresolvedImports,
                 matchedPatterns, matchDetails, dependencies, nodesToInclude,
                 previousDepsCount, currentDepsCount, iterations, result>>

\* parser.parse(sourceCode, ...) inside try/catch: a parse error is rethrown.
ParseEntry ==
  /\ pc = "parse"
  /\ IF Parses(sourceCode)
     THEN /\ ast' = sourceCode
          /\ pc' = "index"
     ELSE /\ ast' = ast
          /\ pc' = "thrown"
  /\ UNCHANGED <<Tmpl, entryPoint, namesArgument, secondCall, previous>>
  /\ UNCHANGED <<sourceCode, patternRegex, lastIndex, fs, importQueue,
                 globalDeclarations, resolvedImports, unresolvedImports,
                 matchedPatterns, matchDetails, dependencies, nodesToInclude,
                 previousDepsCount, currentDepsCount, iterations, result>>

\* The positions of the import statements of a syntax tree, in order.
ImportPositions(tree) ==
  SelectSeq([i \in 1..Len(tree) |-> i],
            LAMBDA i : Tmpl[tree[i]][1].type = "ImportDeclaration")

\* findAllDeclarations(ast, globalDeclarations, currentFilePath, sourceCode)
IndexEntry ==
  /\ pc = "index"
  /\ globalDeclarations' =
       ApplyWrites(EmptyMap,
                   findAllDeclarations(0, ast, CurrentFilePath, NONE, 0, NONE))
  /\ importQueue' = ImportPositions(ast)
  /\ pc' = "imports"
  /\ UNCHANGED <<Tmpl, entryPoint, namesArgument, secondCall, previous>>
  /\ UNCHANGED <<sourceCode, patternRegex, lastIndex, fs, ast,
                 resolvedImports, unresolvedImports,
                 matchedPatterns, matchDetails, dependencies, nodesToInclude,
                 previousDepsCount, currentDepsCount, iterations, result>>

\* parsedFile.declarations.forEach((declaration, name) => globalDeclarations.set(...))
RECURSIVE MergeDeclarations(_, _, _)
MergeDeclarations(map, declarations, names) ==
  IF names = <<>> THEN map
  ELSE MergeDeclarations(MapSet(map, Head(names), declarations.at[Head(names)]),
                         declarations, Tail(names))

\* path.node.specifiers.forEach(spec => globalDeclarations.set(spec.local.name, ...))
RECURSIVE RegisterImports(_, _, _, _)
RegisterImports(map, t, locals, currentFilePath) ==
  IF locals = <<>> THEN map
  ELSE RegisterImports(
         MapSet(map, Head(locals),
                DeclarationInfo(Node(0, t, 1), "import", Node(0, t, 1),
                                currentFilePath, NONE, <<>>, NONE, generate(t, 1))),
         t, Tail(locals), currentFilePath)

\* MergeParsedFile with the test of parsedFile inverted.
MergeParsedFileInverted(map, parsedFile) ==
  IF ~parsedFile.ok
  THEN MergeDeclarations(map, parsedFile.declarations, parsedFile.declarations.keys)
  ELSE map

\* if (parsedFile) { parsedFile.declarations.forEach(...) }
MergeParsedFile(map, parsedFile) ==
  IF parsedFile.ok
  THEN MergeDeclarations(map, parsedFile.declarations, parsedFile.declarations.keys)
  ELSE map

\* ImportDeclarationVisitor counting a specifier as resolved only when the
\* file it resolves to could be parsed.
ImportDeclarationVisitorParsedOnly(i, importPath, resolvedPath, currentFilePath) ==
  IF /\ resolvedPath # NONE
     /\ resolvedPath # currentFilePath
     /\ parseFile(fs, i, resolvedPath).ok
  THEN /\ resolvedImports' = Append(resolvedImports, importPath)
       /\ unresolvedImports' = unresolvedImports
       /\ globalDeclarations' =
            MergeParsedFile(globalDeclarations, parseFile(fs, i, resolvedPath))
  ELSE /\ unresolvedImports' = Append(unresolvedImports, importPath)
       /\ resolvedImports' = resolvedImports
       /\ globalDeclarations' =
            RegisterImports(globalDeclarations, ast[i], ImportLocals(ast[i]),
                            currentFilePath)

\* ImportDeclarationVisitor without the test against currentFilePath: an
\* import that resolves to the entry file is parsed and merged like any other.
ImportDeclarationVisitorFollowingSelf(i, importPath, resolvedPath, currentFilePath) ==
  IF resolvedPath # NONE
  THEN /\ resolvedImports' = Append(resolvedImports, importPath)
       /\ unresolvedImports' = unresolvedImports
       /\ globalDeclarations' =
            MergeParsedFile(globalDeclarations, parseFile(fs, i, resolvedPath))
  ELSE /\ unresolvedImports' = Append(unresolvedImports, importPath)
       /\ resolvedImports' = resolvedImports
       /\ globalDeclarations' =
            RegisterImports(globalDeclarations, ast[i], ImportLocals(ast[i]),
                            currentFilePath)

\* The body of ImportDeclaration(path) once importPath has been resolved.
ImportDeclarationVisitor(i, importPath, resolvedPath, currentFilePath) ==
  IF resolvedPath # NONE /\ resolvedPath # currentFilePath
  THEN /\ resolvedImports' = Append(resolvedImports, importPath)
       /\ unresolvedImports' = unresolvedImports
       /\ globalDeclarations' =
            MergeParsedFile(globalDeclarations, parseFile(fs, i, resolvedPath))
  ELSE /\ unresolvedImports' = Append(unresolvedImports, importPath)
       /\ resolvedImports' = resolvedImports
       /\ globalDeclarations' =
            RegisterImports(globalDeclarations, ast[i], ImportLocals(ast[i]),
                            currentFilePath)

\* VisitImportDeclaration entering the same import statement again when the
\* file it resolves to has import statements of its own.
VisitImportDeclarationReentering ==
  /\ pc = "imports"
  /\ importQueue # <<>>
  /\ ImportDeclarationVisitor(
       Head(importQueue),
       Tmpl[ast[Head(importQueue)]][1].source,
       resolveImportPath(fs, Tmpl[ast[Head(importQueue)]][1].source, CurrentFilePath),
       CurrentFilePath)
  /\ LET resolvedPath ==
           resolveImportPath(fs, Tmpl[ast[Head(importQueue)]][1].source, CurrentFilePath)
     IN importQueue' =
          IF /\ resolvedPath \notin {NONE, CurrentFilePath}
             /\ parseFile(fs, Head(importQueue), resolvedPath).ok
             /\ \E t \in Range(fs.files[resolvedPath].content) :
                  Tmpl[t][1].type = "ImportDeclaration"
          THEN importQueue
          ELSE Tail(importQueue)
  /\ UNCHANGED <<Tmpl, entryPoint, namesArgument, secondCall, previous>>
  /\ UNCHANGED <<sourceCode, patternRegex, lastIndex, fs, pc, ast,
                 matchedPatterns, matchDetails, dependencies, nodesToInclude,
                 previousDepsCount, currentDepsCount, iterations, result>>

\* ImportDeclaration(path) of the import traversal, for the next import statement.
VisitImportDeclaration ==
  /\ pc = "imports"
  /\ importQueue # <<>>
  /\ ImportDeclarationVisitor(
       Head(importQueue),
       Tmpl[ast[Head(importQueue)]][1].source,
       resolveImportPath(fs, Tmpl[ast[Head(importQueue)]][1].source, CurrentFilePath),
       CurrentFilePath)
  /\ importQueue' = Tail(importQueue)
  /\ UNCHANGED <<Tmpl, entryPoint, namesArgument, secondCall, previous>>
  /\ UNCHANGED <<sourceCode, patternRegex, lastIndex, fs, pc, ast,
                 matchedPatterns, matchDetails, dependencies, nodesToInclude,
                 previousDepsCount, currentDepsCount, iterations, result>>

\* MatchDeclarations with the branch taken on dependencies.size.
MatchDeclarationsOnDependencies ==
  /\ pc = "imports"
  /\ importQueue = <<>>
  /\ LET acc == MatchAll([lastIndex |-> lastIndex,
                          matchedPatterns |-> matchedPatterns,
                          matchDetails |-> matchDetails,
                          nodesToInclude |-> nodesToInclude,
                          dependencies |-> dependencies],
                         globalDeclarations.keys, patternRegex, globalDeclarations)
     IN
     /\ lastIndex' = acc.lastIndex
     /\ matchedPatterns' = acc.matchedPatterns
     /\ matchDetails' = acc.matchDetails
     /\ nodesToInclude' = acc.nodesToInclude
     /\ dependencies' = acc.dependencies
     /\ IF acc.dependencies = <<>>
        THEN /\ pc' = "nomatch"
             /\ UNCHANGED <<previousDepsCount, currentDepsCount, iterations>>
        ELSE /\ pc' = "fixpoint"
             /\ previousDepsCount' = 0
             /\ currentDepsCount' = Len(acc.dependencies)
             /\ iterations' = 0
  /\ UNCHANGED <<Tmpl, entryPoint, namesArgument, secondCall, previous>>
  /\ UNCHANGED <<sourceCode, patternRegex, fs, ast, importQueue,
                 globalDeclarations, resolvedImports, unresolvedImports, result>>

\* globalDeclarations.forEach(...): the seed loop, then the branch on
\* matchedPatterns.size and the initialisation of the fixpoint counters.
MatchDeclarations ==
  /\ pc = "imports"
  /\ importQueue = <<>>
  /\ LET acc == MatchAll([lastIndex |-> lastIndex,
                          matchedPatterns |-> matchedPatterns,
                          matchDetails |-> matchDetails,
                          nodesToInclude |-> nodesToInclude,
                          dependencies |-> dependencies],
                         globalDeclarations.keys, patternRegex, globalDeclarations)
     IN
     /\ lastIndex' = acc.lastIndex
     /\ matchedPatterns' = acc.matchedPatterns
     /\ matchDetails' = acc.matchDetails
     /\ nodesToInclude' = acc.nodesToInclude
     /\ dependencies' = acc.dependencies
     /\ IF acc.matchedPatterns = <<>>
        THEN /\ pc' = "nomatch"
             /\ UNCHANGED <<previousDepsCount, currentDepsCount, iterations>>
        ELSE /\ pc' = "fixpoint"
             /\ previousDepsCount' = 0
             /\ currentDepsCount' = Len(acc.dependencies)
             /\ iterations' = 0
  /\ UNCHANGED <<Tmpl, entryPoint, namesArgument, secondCall, previous>>
  /\ UNCHANGED <<sourceCode, patternRegex, fs, ast, importQueue,
                 globalDeclarations, resolvedImports, unresolvedImports, result>>

\* return {success: false, ...} when matchedPatterns.size === 0
ReturnNoMatch ==
  /\ pc = "nomatch"
  /\ result' = << [success |-> FALSE,
                   finalCode |-> <<>>,
                   metadata |-> [matchedPatterns |-> <<>>,
                                 dependencies |-> <<>>,
                                 totalNodesIncluded |-> 0,
                                 resolvedImports |-> resolvedImports,
                                 unresolvedImports |-> unresolvedImports,
                                 matchDetails |-> <<>>]] >>
  /\ pc' = "returned"
  /\ UNCHANGED <<Tmpl, entryPoint, namesArgument, secondCall, previous>>
  /\ UNCHANGED <<sourceCode, patternRegex, lastIndex, fs, ast, importQueue,
                 globalDeclarations, resolvedImports, unresolvedImports,
                 matchedPatterns, matchDetails, dependencies, nodesToInclude,
                 previousDepsCount, currentDepsCount, iterations>>

\* FixpointPass without previousDepsCount = currentDepsCount.
FixpointPassStaleCount ==
  /\ pc = "fixpoint"
  /\ currentDepsCount > previousDepsCount
  /\ LET acc == ProcessAll([nodesToInclude |-> nodesToInclude,
                            dependencies |-> dependencies],
                           dependencies, globalDeclarations)
     IN
     /\ iterations' = iterations + 1
     /\ previousDepsCount' = previousDepsCount
     /\ nodesToInclude' = acc.nodesToInclude
     /\ dependencies' = acc.dependencies
     /\ currentDepsCount' = Len(acc.dependencies)
  /\ UNCHANGED <<Tmpl, entryPoint, namesArgument, secondCall, previous>>
  /\ UNCHANGED <<sourceCode, patternRegex, lastIndex, fs, pc, ast, importQueue,
                 globalDeclarations, resolvedImports, unresolvedImports,
                 matchedPatterns, matchDetails, result>>

\* One pass of while (currentDepsCount > previousDepsCount) { ... }
FixpointPass ==
  /\ pc = "fixpoint"
  /\ currentDepsCount > previousDepsCount
  /\ LET acc == ProcessAll([nodesToInclude |-> nodesToInclude,
                            dependencies |-> dependencies],
                           dependencies, globalDeclarations)
     IN
     /\ iterations' = iterations + 1
     /\ previousDepsCount' = currentDepsCount
     /\ nodesToInclude' = acc.nodesToInclude
     /\ dependencies' = acc.dependencies
     /\ currentDepsCount' = Len(acc.dependencies)
  /\ UNCHANGED <<Tmpl, entryPoint, namesArgument, secondCall, previous>>
  /\ UNCHANGED <<sourceCode, patternRegex, lastIndex, fs, pc, ast, importQueue,
                 globalDeclarations, resolvedImports, unresolvedImports,
                 matchedPatterns, matchDetails, result>>

\* unresolvedImports.forEach(importPath => traverse(ast, {ImportDeclaration}))
RetainUnresolvedImports ==
  /\ pc = "fixpoint"
  /\ ~(currentDepsCount > previousDepsCount)
  /\ nodesToInclude' = RetainAll(nodesToInclude, ast, unresolvedImports, dependencies)
  /\ pc' = "assemble"
  /\ UNCHANGED <<Tmpl, entryPoint, namesArgument, secondCall, previous>>
  /\ UNCHANGED <<sourceCode, patternRegex, lastIndex, fs, ast, importQueue,
                 globalDeclarations, resolvedImports, unresolvedImports,
                 matchedPatterns, matchDetails, dependencies,
                 previousDepsCount, currentDepsCount, iterations, result>>

\* finalNodes = Array.from(nodesToInclude); generate(finalAst); return {success: true, ...}
Assemble ==
  /\ pc = "assemble"
  /\ result' = << [success |-> TRUE,
                   finalCode |-> generateProgram(nodesToInclude),
                   metadata |-> [matchedPatterns |-> matchedPatterns,
                                 dependencies |-> dependencies,
                                 totalNodesIncluded |-> Len(nodesToInclude),
                                 resolvedImports |-> resolvedImports,
                                 unresolvedImports |-> unresolvedImports,
                                 matchDetails |-> matchDetails,
                                 iterationsRequired |-> iterations]] >>
  /\ pc' = "returned"
  /\ UNCHANGED <<Tmpl, entryPoint, namesArgument, secondCall, previous>>
  /\ UNCHANGED <<sourceCode, patternRegex, lastIndex, fs, ast, importQueue,
                 globalDeclarations, resolvedImports, unresolvedImports,
                 matchedPatterns, matchDetails, dependencies, nodesToInclude,
                 previousDepsCount, currentDepsCount, iterations>>

\* The caller repeats the call once, with the same source text, the same
\* RegExp object and the same path: every collection is created anew, the
\* RegExp object keeps its lastIndex.
CallAgain ==
  /\ pc \in {"returned", "thrown"}
  /\ ~secondCall
  /\ secondCall' = TRUE
  /\ previous' = result
  /\ result' = <<>>
  /\ pc' = "parse"
  /\ ast' = <<>>
  /\ importQueue' = <<>>
  /\ globalDeclarations' = EmptyMap
  /\ resolvedImports' = <<>>
  /\ unresolvedImports' = <<>>
  /\ matchedPatterns' = <<>>
  /\ matchDetails' = <<>>
  /\ dependencies' = <<>>
  /\ nodesToInclude' = <<>>
  /\ previousDepsCount' = 0
  /\ currentDepsCount' = 0
  /\ iterations' = 0
  /\ UNCHANGED <<Tmpl, entryPoint, namesArgument, sourceCode, patternRegex, lastIndex, fs>>

Next ==
  \/ CallAgain
  \/ ParseEntry
  \/ IndexEntry
  \/ VisitImportDeclaration
  \/ MatchDeclarations
  \/ ReturnNoMatch
  \/ FixpointPass
  \/ RetainUnresolvedImports
  \/ Assemble

Spec == Init /\ [][Next]_vars

----------------------------------------------------------------------------
(* Vocabulary of the properties *)

Returned == pc = "returned"

Succeeded == Returned /\ result[1].success

Seeds == Range(matchedPatterns)

Deps == Range(dependencies)

Output == Range(nodesToInclude)

Selected == Seeds \cup Deps

Keys == Range(globalDeclarations.keys)

RecordOf(name) == globalDeclarations.at[name]

\* The names used as a value, or as the object of a member access, below node h.
RefNames(h) ==
  LET below == { m \in DOMAIN Tmpl[h[2]] : IsInside(h[2], m, h[3]) } IN
  { Tmpl[h[2]][m].name :
      m \in { o \in below : /\ Tmpl[h[2]][o].type = "Identifier"
                            /\ Tmpl[h[2]][o].referenced
                            /\ ~Tmpl[h[2]][o].binding } }
  \cup { Tmpl[h[2]][m].object :
           m \in { o \in below : /\ Tmpl[h[2]][o].type = "MemberExpression"
                                 /\ Tmpl[h[2]][o].object # NONE } }

\* The pattern matches the text of no record of the global table.
NoRecordMatches ==
  \A name \in Keys : MatchOffsets(patternRegex, RecordOf(name).originalCode, 0) = {}

\* The specifiers of the import statements of the entry module.
EntrySpecifiers == { Tmpl[ast[i]][1].source : i \in Range(ImportPositions(ast)) }

----------------------------------------------------------------------------
(* C1 *)

\* C1 as stated: when the pattern matches the text of no record, the call
\* returns success = false, finalCode = "" and every metadata list
\* (matchedPatterns, dependencies, matchDetails, resolvedImports,
\* unresolvedImports) is empty, also when the entry module has imports.
C1_NoMatchAllListsEmpty ==
  (Returned /\ NoRecordMatches) =>
    /\ ~result[1].success
    /\ result[1].finalCode = <<>>
    /\ result[1].metadata.matchedPatterns = <<>>
    /\ result[1].metadata.dependencies = <<>>
    /\ result[1].metadata.matchDetails = <<>>
    /\ result[1].metadata.resolvedImports = <<>>
    /\ result[1].metadata.unresolvedImports = <<>>

\* C1 amended: when the pattern matches the text of no record, the call
\* returns success = false, finalCode = "", empty matchedPatterns,
\* dependencies and matchDetails and totalNodesIncluded = 0, while
\* resolvedImports and unresolvedImports together list the specifier of every
\* import statement of the entry module, once per statement.
C1_NoMatchResult ==
  (Returned /\ NoRecordMatches) =>
    /\ ~result[1].success
    /\ result[1].finalCode = <<>>
    /\ result[1].metadata.matchedPatterns = <<>>
    /\ result[1].metadata.dependencies = <<>>
    /\ result[1].metadata.matchDetails = <<>>
    /\ result[1].metadata.totalNodesIncluded = 0
    /\ Len(result[1].metadata.resolvedImports)
         + Len(result[1].metadata.unresolvedImports) = Len(ImportPositions(ast))
    /\ Range(result[1].metadata.resolvedImports)
         \cup Range(result[1].metadata.unresolvedImports) = EntrySpecifiers

\* A no-match return of a module that has records and an import statement.
C1_Witness ==
  /\ Returned
  /\ NoRecordMatches
  /\ Keys # {}
  /\ ImportPositions(ast) # <<>>
  /\ ~result[1].success

----------------------------------------------------------------------------
(* C2 *)

\* C2: closure completeness.  After a successful extraction, for all table
\* records D and E with D selected (a seed or a dependency) and the node of D
\* referencing the name of E, the node of E's record is in the output node
\* set, for E of every kind, Import included.
C2_ClosureCompleteness ==
  Succeeded =>
    \A d \in Selected, e \in Keys :
      e \in RefNames(RecordOf(d).node) => RecordOf(e).node \in Output

\* A selected declaration references a record of kind Import.
C2_Witness ==
  /\ Succeeded
  /\ \E d \in Selected, e \in Keys :
       /\ e \in RefNames(RecordOf(d).node)
       /\ RecordOf(e).type = "import"
       /\ RecordOf(e).node \in Output

----------------------------------------------------------------------------
(* C3 *)

\* How often node h occurs in the list handed to the printer.
Occurrences(h) == Cardinality({ i \in 1..Len(nodesToInclude) : nodesToInclude[i] = h })

\* C3: closure soundness.  After a successful extraction, the node of the
\* record of every name in the final dependency set occurs exactly once in
\* the node list handed to the printer, and no node occurs in it twice.
C3_ClosureSoundness ==
  Succeeded =>
    /\ \A d \in Deps : Occurrences(RecordOf(d).node) = 1
    /\ \A h \in Output : Occurrences(h) = 1

\* A name is both a seed and a dependency: its node is added twice.
C3_Witness ==
  /\ Succeeded
  /\ Seeds \cap Deps # {}

----------------------------------------------------------------------------
(* C4 *)

\* C4: the fixpoint loop terminates.  No step of a call removes a name from
\* the dependency set, the iteration count never exceeds the number of keys
\* of the global table, and every pass of the loop either adds a dependency
\* or makes the loop condition false.
C4_FixpointTerminates ==
  [][ /\ pc \notin {"returned", "thrown"} => Deps \subseteq Range(dependencies')
      /\ iterations' <= Len(globalDeclarations'.keys)
      /\ (pc = "fixpoint" /\ pc' = "fixpoint") =>
           \/ Len(dependencies') > Len(dependencies)
           \/ ~(currentDepsCount' > previousDepsCount') ]_vars

\* A successful run whose loop needed a second pass.
C4_Witness ==
  /\ Succeeded
  /\ result[1].metadata.iterationsRequired >= 2
  /\ Len(result[1].metadata.dependencies) >= 2

----------------------------------------------------------------------------
(* C5 *)

\* The nodes of type ty that enclose node h in its statement.
Enclosing(h, ty) ==
  { Node(h[1], h[2], m) :
      m \in { o \in DOMAIN Tmpl[h[2]] : /\ IsInside(h[2], h[3], o)
                                        /\ Tmpl[h[2]][o].type = ty } }

\* C5: nested inclusion.  After a successful extraction, for every selected
\* name whose record's node is a function declared inside the body of another
\* function F, the node of F is in the output node set.
C5_NestedInclusion ==
  Succeeded =>
    \A d \in Selected :
      Tmpl[RecordOf(d).node[2]][RecordOf(d).node[3]].type = "FunctionDeclaration" =>
        Enclosing(RecordOf(d).node, "FunctionDeclaration") \subseteq Output

----------------------------------------------------------------------------
(* C6 *)

----------------------------------------------------------------------------
(* C7 *)

\* The import statements of the entry module whose specifier is unresolved.
UnresolvedPositions ==
  { i \in Range(ImportPositions(ast)) :
      Tmpl[ast[i]][1].source \in Range(unresolvedImports) }

\* A local binding name of import statement i is in the dependency set.
LocalUsed(i) == Range(ImportLocals(ast[i])) \cap Deps # {}

\* The nodes the seed loop adds: the seeds' own nodes and the nodes of the
\* records stored under a seed's class name or parent function name.
SeedLoopNodes ==
  { RecordOf(s).node : s \in Seeds }
  \cup { RecordOf(RecordOf(s).className).node :
           s \in { x \in Seeds : RecordOf(x).className \in Keys } }
  \cup { RecordOf(RecordOf(s).parentFunction).node :
           s \in { x \in Seeds : /\ RecordOf(x).type = "nested-function"
                                 /\ RecordOf(x).parentFunction \in Keys } }

\* C7 as stated: after a successful extraction, the node of an import
\* statement with an unresolved specifier is in the output node set if and
\* only if one of its local binding names is in the final dependency set.
C7_UnresolvedImportRetention ==
  Succeeded =>
    \A i \in UnresolvedPositions :
      Node(0, ast[i], 1) \in Output <=> LocalUsed(i)

\* C7 amended: after a successful extraction, the node of an import statement
\* with an unresolved specifier is in the output node set if and only if one
\* of its local binding names is in the final dependency set or the seed loop
\* added the statement (a record pointing at it is a seed, or is stored under
\* a seed's class or parent function name).
C7_UnresolvedImportRetentionOrSeed ==
  Succeeded =>
    \A i \in UnresolvedPositions :
      Node(0, ast[i], 1) \in Output <=>
        (LocalUsed(i) \/ Node(0, ast[i], 1) \in SeedLoopNodes)

\* An unresolved import statement retained because a local name is used, and
\* not because of the seed loop.
C7_Witness ==
  /\ Succeeded
  /\ \E i \in UnresolvedPositions :
       /\ LocalUsed(i)
       /\ Node(0, ast[i], 1) \notin SeedLoopNodes
       /\ Node(0, ast[i], 1) \in Output

----------------------------------------------------------------------------
(* C8 *)

\* The keys the records of the names in S reference.
Referenced(S) == UNION { RefNames(RecordOf(d).path) \cap Keys : d \in S }

\* The keys reachable from the names in S through references.
RECURSIVE ReachFrom(_)
ReachFrom(S) ==
  IF Referenced(S) \subseteq S THEN S ELSE ReachFrom(S \cup Referenced(S))

\* The keys some seed reaches through a chain of one or more references.
Reached == ReachFrom(Referenced(Seeds))

\* The nodes the parent-function side-rule of the loop adds.
LoopParentNodes ==
  { RecordOf(RecordOf(d).parentFunction).node :
      d \in { x \in Deps : /\ RecordOf(x).type = "nested-function"
                           /\ RecordOf(x).parentFunction \in Keys } }

----------------------------------------------------------------------------
(* C9 *)

\* C9: the call returns success = true exactly when the seed set is not
\* empty; seeds that reference no key of the table give a success with an
\* empty dependency set and no pass of the loop.
C9_SuccessIffSeeds ==
  Returned =>
    /\ result[1].success <=> matchedPatterns # <<>>
    /\ (matchedPatterns # <<>> /\ Referenced(Seeds) = {}) =>
         /\ result[1].success
         /\ result[1].metadata.dependencies = <<>>
         /\ result[1].metadata.iterationsRequired = 0

\* A successful return with seeds and an empty dependency set.
C9_Witness ==
  /\ Succeeded
  /\ matchedPatterns # <<>>
  /\ result[1].metadata.dependencies = <<>>
  /\ result[1].finalCode # <<>>

----------------------------------------------------------------------------
(* C10 *)

\* The file the specifier of import statement i of the entry resolves to.
ResolvedFile(i) == resolveImportPath(fs, Tmpl[ast[i]][1].source, CurrentFilePath)

\* The import statements of the entry module with a relative specifier that
\* resolves to a parseable file other than the entry module.
ParsedPositions ==
  { i \in Range(ImportPositions(ast)) :
      /\ IsRelative(Tmpl[ast[i]][1].source)
      /\ ResolvedFile(i) \notin {NONE, CurrentFilePath}
      /\ parseFile(fs, i, ResolvedFile(i)).ok }

\* The function and class declarations of the file import statement i names.
DeclarationsOf(i) ==
  UNION { { Node(i, t, n) :
              n \in { o \in DOMAIN Tmpl[t] :
                        /\ Tmpl[t][o].type \in {"FunctionDeclaration", "ClassDeclaration"}
                        /\ Tmpl[t][o].name # NONE } } :
          t \in Range(fs.files[ResolvedFile(i)].content) }

\* The table of the file import statement i names, as parseFile returns it.
TableOf(i) == parseFile(fs, i, ResolvedFile(i)).declarations

\* The keys the import statements after position i write into the table.
WrittenAfter(i) ==
  UNION { IF Tmpl[ast[j]][1].source \in Range(resolvedImports)
          THEN Range(parseFile(fs, j, ResolvedFile(j)).declarations.keys)
          ELSE Range(ImportLocals(ast[j])) :
          j \in { o \in Range(ImportPositions(ast)) : o > i } }

\* The seeds declared in the entry module.
EntrySeeds == { s \in Seeds : RecordOf(s).node[1] = 0 }

\* C10 as stated: after a successful extraction of an entry module that
\* imports a relative specifier resolving to a parseable file U, the specifier
\* is in resolvedImports, every declaration of U is in the global table, and
\* every declaration of U that a seed of the entry references by name has its
\* node in the output.
C10_CrossFileExtraction ==
  Succeeded =>
    \A i \in ParsedPositions :
      /\ Tmpl[ast[i]][1].source \in Range(resolvedImports)
      /\ \A h \in DeclarationsOf(i) : \E k \in Keys : RecordOf(k).node = h
      /\ \A s \in EntrySeeds, h \in DeclarationsOf(i) :
           Tmpl[h[2]][h[3]].name \in RefNames(RecordOf(s).path) => h \in Output

\* C10 amended: after a successful extraction of an entry module that imports
\* a relative specifier resolving to a parseable file U, the specifier is in
\* resolvedImports, every key of U's own table is a key of the global table
\* and holds U's record unless a later import statement wrote the same key,
\* and every name a seed of the entry references whose global record is U's
\* record has that record's node in the output (the declaration's node
\* unless U re-registered the name, as export default x does).
C10_CrossFileRecords ==
  Succeeded =>
    \A i \in ParsedPositions :
      /\ Tmpl[ast[i]][1].source \in Range(resolvedImports)
      /\ \A k \in Range(TableOf(i).keys) :
           /\ k \in Keys
           /\ k \notin WrittenAfter(i) => RecordOf(k) = TableOf(i).at[k]
      /\ \A s \in EntrySeeds, k \in Range(TableOf(i).keys) :
           (k \in RefNames(RecordOf(s).path) /\ RecordOf(k) = TableOf(i).at[k]) =>
             RecordOf(k).node \in Output

\* A seed of the entry references a function declared in the imported file,
\* and the function's node is in the output.
C10_Witness ==
  /\ Succeeded
  /\ \E i \in ParsedPositions : \E s \in EntrySeeds, h \in DeclarationsOf(i) :
       /\ Tmpl[h[2]][h[3]].name \in RefNames(RecordOf(s).path)
       /\ RecordOf(Tmpl[h[2]][h[3]].name).node = h
       /\ h \in Output

----------------------------------------------------------------------------
(* C11 *)

\* C11: error taxonomy.  A call raises an error exactly when its entry
\* module fails to parse, and then no result object is produced; on every
\* other path (whatever the imports resolve to, whether or not the pattern
\* matches) the call is at a step of the extraction or has returned a
\* result object.
C11_ErrorTaxonomy ==
  /\ pc = "thrown" => (~Parses(sourceCode) /\ result = <<>>)
  /\ pc \notin {"parse", "thrown"} => Parses(sourceCode)
  /\ pc = "returned" => result # <<>>
  /\ pc \notin {"thrown", "returned"} =>
       /\ result = <<>>
       /\ pc \in {"parse", "index", "imports", "nomatch", "fixpoint", "assemble"}

\* A call returns a result although one import is unresolved or resolves to
\* a file that cannot be parsed, and the pattern matches nothing.
C11_Witness ==
  /\ Returned
  /\ ~result[1].success
  /\ \E i \in Range(ImportPositions(ast)) :
       \/ ResolvedFile(i) = NONE
       \/ ~parseFile(fs, i, ResolvedFile(i)).ok

----------------------------------------------------------------------------
(* C12 *)

\* Path f names a regular file whose text the parser rejects.
FailsToParse(f) ==
  /\ existsSync(fs.files, f)
  /\ IsFile(fs.files, f)
  /\ ~Parses(fs.files[f].content)

\* The import statement the traversal visits next resolves to a file, other
\* than the entry module, that fails to parse.
NextImportFailsToParse ==
  /\ pc = "imports"
  /\ importQueue # <<>>
  /\ ResolvedFile(Head(importQueue)) \notin {NONE, CurrentFilePath}
  /\ FailsToParse(ResolvedFile(Head(importQueue)))

\* C12: an imported file that fails to parse is skipped.  The step that
\* visits an import statement resolving to such a file appends the specifier
\* to resolvedImports, leaves unresolvedImports and every record of the
\* global table as they were, and goes on to the following import statement.
C12_ImportedParseFailureRecovered ==
  [][ NextImportFailsToParse =>
        /\ resolvedImports' =
             Append(resolvedImports, Tmpl[ast[Head(importQueue)]][1].source)
        /\ unresolvedImports' = unresolvedImports
        /\ globalDeclarations' = globalDeclarations
        /\ importQueue' = Tail(importQueue)
        /\ pc' = "imports" ]_vars

\* The records of a later import statement are in the table after an earlier
\* one resolved to a file that fails to parse.
C12_Witness ==
  /\ pc = "imports"
  /\ importQueue = <<>>
  /\ \E i \in Range(ImportPositions(ast)) :
       /\ ResolvedFile(i) \notin {NONE, CurrentFilePath}
       /\ FailsToParse(ResolvedFile(i))
       /\ Tmpl[ast[i]][1].source \in Range(resolvedImports)
       /\ Tmpl[ast[i]][1].source \notin Range(unresolvedImports)
       /\ \E j \in Range(ImportPositions(ast)) :
            /\ j > i
            /\ ResolvedFile(j) # NONE
            /\ Range(TableOf(j).keys) # {}
            /\ Range(TableOf(j).keys) \subseteq Keys

----------------------------------------------------------------------------
(* C13 *)

\* C13: extractByNames is an exact-name selection.  When a call made through
\* extractByNames returns, the seed set (metadata.matchedPatterns) is exactly
\* the set of keys of the global table that equal one of the given names.
C13_ExactNameSelection ==
  (Returned /\ entryPoint = "extractByNames") =>
    Range(result[1].metadata.matchedPatterns) = Keys \cap Range(namesArgument)

----------------------------------------------------------------------------
(* C14 *)

\* C14: no state persists between calls.  When the caller repeats a call
\* with the same source text, the same pattern object and the same entry
\* path on an unchanged file system, the second call returns a result equal
\* to the first (same seeds, dependencies, output and metadata).
C14_NoStateBetweenCalls ==
  (Returned /\ secondCall) => result = previous

----------------------------------------------------------------------------
(* C15 *)

\* C15: the output is closed under references for every included node.  For
\* every node of the output set, the side-rule nodes (enclosing function,
\* enclosing class) included, every name referenced inside it that is a key
\* of the table is a dependency and the node of its record is in the output.
C15_OutputClosedUnderReferences ==
  (Returned /\ Succeeded) =>
    \A node \in Output : \A name \in RefNames(node) \cap Keys :
      /\ name \in Deps
      /\ RecordOf(name).node \in Output

----------------------------------------------------------------------------
(* C16 *)

\* C16: both side-rules are applied inside the fixpoint loop.  After a
\* successful extraction, for every name in the final dependency set whose
\* record is not of kind Import and has a class name, the declaration node
\* of that class is in the output node set.
C16_ClassRuleInLoop ==
  (Returned /\ Succeeded) =>
    \A d \in Deps \cap Keys :
      (RecordOf(d).type # "import" /\ RecordOf(d).className # NONE) =>
        Enclosing(RecordOf(d).node, "ClassDeclaration") \subseteq Output

----------------------------------------------------------------------------
(* C17 *)

\* The import traversal has visited every import statement of the entry.
IndexingDone ==
  \/ pc = "imports" /\ importQueue = <<>>
  \/ pc \in {"nomatch", "fixpoint", "assemble", "returned"}

\* The keys findAllDeclarations writes for the file at filePath.
KeysOfFile(filePath) ==
  Range(ApplyWrites(EmptyMap,
                    findAllDeclarations(1, fs.files[filePath].content, filePath,
                                        NONE, 0, NONE)).keys)

\* filePath names a file of the file system whose text the parser accepts.
Parseable(filePath) ==
  /\ existsSync(fs.files, filePath)
  /\ IsFile(fs.files, filePath)
  /\ Parses(fs.files[filePath].content)

\* The parseable files the import statements of the file at filePath resolve to.
ImportedBy(filePath) ==
  { f \in { resolveImportPath(fs, Tmpl[t][1].source, filePath) :
              t \in { x \in Range(fs.files[filePath].content) :
                        Tmpl[x][1].type = "ImportDeclaration" } } :
      f # NONE /\ f # filePath /\ Parseable(f) }

\* The parseable files the import statements of the entry module resolve to.
EntryImports ==
  { ResolvedFile(i) :
      i \in { j \in Range(ImportPositions(ast)) :
                /\ ResolvedFile(j) \notin {NONE, CurrentFilePath}
                /\ Parseable(ResolvedFile(j)) } }

\* The keys the entry module contributes: its own declarations and the local
\* names of its import statements that do not resolve.
EntryKeys ==
  Range(ApplyWrites(EmptyMap,
                    findAllDeclarations(0, ast, CurrentFilePath, NONE, 0, NONE)).keys)
  \cup UNION { Range(ImportLocals(ast[i])) :
                 i \in { j \in Range(ImportPositions(ast)) :
                           ResolvedFile(j) \in {NONE, CurrentFilePath} } }

----------------------------------------------------------------------------
(* C18 *)

\* The entry module imports a file that is part of an import cycle: the file
\* imports a second file and the second file imports the first.
CycleImported ==
  \E a \in EntryImports : \E b \in ImportedBy(a) : a \in ImportedBy(b)

----------------------------------------------------------------------------
(* C19 *)

\* C19: pattern matching is complete and exact.  For every RegExp the caller
\* supplies, whatever its flags and its lastIndex, the seed set of a returned
\* call is exactly the set of keys whose record's text the pattern matches
\* somewhere; no matching record is skipped.
C19_MatchingCompleteAndExact ==
  Returned =>
    Range(result[1].metadata.matchedPatterns)
      = { name \in Keys : MatchOffsets(patternRegex, RecordOf(name).originalCode, 0) # {} }

----------------------------------------------------------------------------
(* C20 *)

\* The syntax-tree node h stands for.
NodeAt(h) == Tmpl[h[2]][h[3]]

\* The keys whose record holds the function declaration of that name.
FunctionRecords ==
  { name \in Keys : /\ NodeAt(RecordOf(name).node).type = "FunctionDeclaration"
                    /\ NodeAt(RecordOf(name).node).name = name }

\* The innermost function declarations around node h (none, or one).
EnclosingFunction(h) ==
  { f \in Enclosing(h, "FunctionDeclaration") :
      \A g \in Enclosing(h, "FunctionDeclaration") \ {f} : IsInside(h[2], f[3], g[3]) }

\* C20: after indexing, a function declared inside the body of function F is
\* recorded with kind nested-function and parent function F, and a function
\* declared as a statement of the module is recorded with kind function and
\* no parent function.
C20_NestedFunctionRecords ==
  IndexingDone =>
    \A name \in FunctionRecords :
      /\ \A f \in EnclosingFunction(RecordOf(name).node) :
           /\ RecordOf(name).type = "nested-function"
           /\ RecordOf(name).parentFunction = NodeAt(f).name
      /\ RecordOf(name).node[3] = 1 =>
           /\ RecordOf(name).type = "function"
           /\ RecordOf(name).parentFunction = NONE

----------------------------------------------------------------------------
(* C21 *)

\* The declarations.set calls indexing the entry module makes, in order.
EntryWrites == findAllDeclarations(0, ast, CurrentFilePath, NONE, 0, NONE)

\* C21: indexing the entry module writes the record of a declaration node
\* once: no node receives, under one key, a second record, and so never two
\* records that differ in kind, parent function or depth.
C21_NoDoubleIndexing ==
  IndexingDone =>
    LET writes == EntryWrites IN
    \A i, j \in 1..Len(writes) :
      (/\ writes[i][1] = writes[j][1]
       /\ writes[i][2].node = writes[j][2].node) =>
        /\ i = j
        /\ writes[i][2].type = writes[j][2].type
        /\ writes[i][2].parentFunction = writes[j][2].parentFunction
        /\ writes[i][2].depth = writes[j][2].depth

----------------------------------------------------------------------------
(* C22 *)

\* The globalDeclarations.set calls the traversal makes for import statement
\* i of the entry: the records of the file it resolves to, the fallback
\* records of its local names, or none when the file cannot be parsed.
ImportWrites(i) ==
  IF ResolvedFile(i) \notin {NONE, CurrentFilePath}
  THEN IF parseFile(fs, i, ResolvedFile(i)).ok
       THEN findAllDeclarations(i, fs.files[ResolvedFile(i)].content,
                                ResolvedFile(i), NONE, 0, NONE)
       ELSE <<>>
  ELSE [j \in 1..Len(ImportLocals(ast[i])) |->
          <<ImportLocals(ast[i])[j],
            DeclarationInfo(Node(0, ast[i], 1), "import", Node(0, ast[i], 1),
                            CurrentFilePath, NONE, <<>>, NONE, generate(ast[i], 1))>>]

\* Every write to the global table, in processing order: the entry module's
\* declarations, then the import statements of the entry in source order.
AllWrites ==
  EntryWrites
    \o Flatten([j \in 1..Len(ImportPositions(ast)) |->
                  ImportWrites(ImportPositions(ast)[j])])

\* The position in writes of the last write to key.
LastWrite(writes, key) ==
  CHOOSE i \in 1..Len(writes) :
    /\ writes[i][1] = key
    /\ \A j \in (i + 1)..Len(writes) : writes[j][1] # key

\* The classes declared as statements of the entry module that have a method
\* called name, by statement position.
ClassesWithMethod(name) ==
  { p \in 1..Len(ast) :
      /\ Tmpl[ast[p]][1].type = "ClassDeclaration"
      /\ \E n \in Children(ast[p], 1) :
           Tmpl[ast[p]][n].type = "ClassMethod" /\ Tmpl[ast[p]][n].name = name }

\* The import statements of the entry whose target was parsed and merged.
MergedPositions ==
  { i \in Range(ImportPositions(ast)) :
      /\ ResolvedFile(i) \notin {NONE, CurrentFilePath}
      /\ parseFile(fs, i, ResolvedFile(i)).ok }

\* C22: when indexing ends, the keys of the global table are the keys
\* written, and each key maps to the record of the last write to it, the
\* entry module's declarations being written first in traversal order and
\* then the records of each import statement of the entry in source order.
\* So a declaration of an imported file replaces an entry declaration of the
\* same name, and the bare method key of two classes with a same-named method
\* maps to the later class's method.
C22_LastWriteWins ==
  (pc = "imports" /\ importQueue = <<>>) =>
    LET writes == AllWrites
        entry == EntryWrites
        entryKeys == { entry[k][1] : k \in 1..Len(entry) }
        last == [key \in Keys |-> writes[LastWrite(writes, key)][2]]
    IN
    /\ Keys = { writes[i][1] : i \in 1..Len(writes) }
    /\ \A key \in Keys : RecordOf(key) = last[key]
    /\ \A i \in MergedPositions :
         LET table == TableOf(i) IN
         \A name \in (Range(table.keys) \cap entryKeys) \ WrittenAfter(i) :
           /\ RecordOf(name) = table.at[name]
           /\ RecordOf(name).source = ResolvedFile(i)
    /\ \A name \in { "m", "n" } :
         \A p, q \in ClassesWithMethod(name) :
           (p < q /\ ImportPositions(ast) = <<>>) =>
             /\ RecordOf(name).node[2] = ast[q]
             /\ RecordOf(name).className = Tmpl[ast[q]][1].name

\* An imported file's class K has replaced the entry module's class K.
C22_Witness ==
  /\ pc = "imports"
  /\ importQueue = <<>>
  /\ \E i \in MergedPositions :
       /\ "K" \in Range(TableOf(i).keys)
       /\ "K" \in { EntryWrites[k][1] : k \in 1..Len(EntryWrites) }
       /\ RecordOf("K").source = ResolvedFile(i)

\* Two classes of the entry have a method m; the key m holds the later one.
C22_WitnessMethod ==
  /\ pc = "imports"
  /\ importQueue = <<>>
  /\ \E p, q \in ClassesWithMethod("m") : p < q /\ RecordOf("m").node[2] = ast[q]

----------------------------------------------------------------------------
(* Import resolution over enumerated disks *)

\* Most paths that exist on an enumerated disk.
MaxPresent == 2

\* The paths resolveImportPath probes for a relative specifier, in the order
\* it probes them: the literal path, literal + ext, literal/index + ext.
Candidates(basePath) ==
  << basePath >>
    \o [e \in 1..Len(extensions) |-> basePath \o extensions[e]]
    \o [e \in 1..Len(extensions) |-> basePath \o "/index" \o extensions[e]]

\* The entry modules of the resolution runs: one relative import statement,
\* alone or with a declaration that references its local name.
ResolveEntries ==
  { << "importAdd" >>, << "importAdd", "sum" >>, << "importSelf", "target" >> }

\* The disks on which at most MaxPresent of the paths probed for importPath
\* exist, each as a regular file or as a directory.  The file at the entry's
\* own path holds the entry module.
ResolverFileSystems(importPath, entry) ==
  LET cands == Range(Candidates(PathResolve(BaseDir, importPath)))
      content(p) == IF p = CurrentFilePath THEN entry ELSE << "add", "helper" >>
  IN { [files |-> [p \in present |->
                     IF p \in dirs THEN Directory ELSE File(content(p))],
        packages |-> <<>>] :
         present \in { S \in SUBSET cands : Cardinality(S) <= MaxPresent },
         dirs \in SUBSET cands }

\* A call of extractPatternWithDependencies on one of ResolveEntries, with
\* /^function sum|^function target/.
InitResolve ==
  /\ Tmpl = SyntaxTrees
  /\ sourceCode \in ResolveEntries
  /\ entryPoint = "extractPatternWithDependencies"
  /\ namesArgument = <<>>
  /\ patternRegex = Regex(<< << "function", "sum" >>, << "function", "target" >> >>,
                          TRUE, FALSE)
  /\ secondCall = FALSE
  /\ previous = <<>>
  /\ lastIndex = 0
  /\ fs \in ResolverFileSystems(SyntaxTrees[sourceCode[1]][1].source, sourceCode)
  /\ pc = "parse"
  /\ ast = <<>>
  /\ importQueue = <<>>
  /\ globalDeclarations = EmptyMap
  /\ resolvedImports = <<>>
  /\ unresolvedImports = <<>>
  /\ matchedPatterns = <<>>
  /\ matchDetails = <<>>
  /\ dependencies = <<>>
  /\ nodesToInclude = <<>>
  /\ previousDepsCount = 0
  /\ currentDepsCount = 0
  /\ iterations = 0
  /\ result = <<>>

SpecResolve == InitResolve /\ [][Next]_vars

----------------------------------------------------------------------------
(* C23 *)

\* Candidate p of the probing order can be returned on the disk: it exists,
\* and the literal path is moreover a regular file.
Eligible(cands, p) ==
  /\ existsSync(fs.files, cands[p])
  /\ p = 1 => IsFile(fs.files, cands[p])

\* The first eligible candidate in the probing order, or NONE.
FirstEligible(cands) ==
  IF \E p \in 1..Len(cands) : Eligible(cands, p)
  THEN cands[CHOOSE p \in 1..Len(cands) :
               /\ Eligible(cands, p)
               /\ \A o \in 1..(p - 1) : ~Eligible(cands, o)]
  ELSE NONE

\* The relative specifier the entry module imports.
EntrySpecifier == SyntaxTrees[sourceCode[1]][1].source

\* C23: for a specifier starting with ./ or ../, resolveImportPath returns
\* the literal path when it is a regular file, otherwise the first existing
\* path among literal + .js, .ts, .jsx, .tsx, .mjs, otherwise the first
\* existing path among literal/index + .js, .ts, .jsx, .tsx, .mjs; no
\* candidate is returned while an earlier one could be.  After the import
\* traversal the specifier is resolved exactly when a candidate other than
\* the entry's path was returned, and the records merged come from it.
C23_ResolutionOrder ==
  LET cands == Candidates(PathResolve(BaseDir, EntrySpecifier))
      returned == resolveImportPath(fs, EntrySpecifier, CurrentFilePath)
  IN
  /\ IsRelative(EntrySpecifier)
  /\ FirstEligible(cands) # NONE => returned = FirstEligible(cands)
  /\ \A p, q \in 1..Len(cands) :
       (p < q /\ returned = cands[q]) => ~Eligible(cands, p)
  /\ IndexingDone =>
       /\ EntrySpecifier \in Range(resolvedImports)
            <=> FirstEligible(cands) \notin {NONE, CurrentFilePath}
       /\ \A name \in Keys :
            RecordOf(name).node[1] # 0 => RecordOf(name).source = FirstEligible(cands)

\* ./util was resolved while both /proj/util.ts and /proj/util/index.js
\* exist: the records come from /proj/util.ts.
C23_Witness ==
  /\ Returned
  /\ "./util" \in Range(resolvedImports)
  /\ "/proj/util/index.js" \in DOMAIN fs.files
  /\ "add" \in Keys
  /\ RecordOf("add").source = "/proj/util.ts"

----------------------------------------------------------------------------
(* C24 *)

\* The specifier of import statement i of the entry.
SpecifierOf(i) == Tmpl[ast[i]][1].source

\* The import statement the Import-kind record under name was made for.
ImportOf(name) == RecordOf(name).node[2]

\* What both readings of the claim share: each import statement has pushed
\* its specifier to exactly one list, to resolvedImports exactly when it
\* resolved to a path other than the entry file's; only unresolved specifiers
\* have Import-kind records; an import resolving to the entry file has
\* merged no record.
ImportsPartitioned ==
  /\ Len(resolvedImports) + Len(unresolvedImports) = Len(ImportPositions(ast))
  /\ \A i \in Range(ImportPositions(ast)) :
       /\ (SpecifierOf(i) \in Range(resolvedImports))
            # (SpecifierOf(i) \in Range(unresolvedImports))
       /\ SpecifierOf(i) \in Range(resolvedImports)
            <=> ResolvedFile(i) \notin {NONE, CurrentFilePath}
       /\ ResolvedFile(i) = CurrentFilePath =>
            \A name \in Keys : RecordOf(name).node[1] # i
  /\ \A name \in Keys :
       RecordOf(name).type = "import" =>
         /\ Tmpl[ImportOf(name)][1].source \in Range(unresolvedImports)
         /\ RecordOf(name).node[1] = 0

----------------------------------------------------------------------------
(* C25 *)

\* C25: after indexing, every local binding name of every import statement
\* of the entry is a key of the global table (unless a later import
\* statement wrote the key): its record is the one merged from the resolved
\* target when the target defines the name, and otherwise a record of kind
\* import whose node is the import statement.
C25_ImportPreRegistration ==
  IndexingDone =>
    \A i \in Range(ImportPositions(ast)) :
      \A name \in Range(ImportLocals(ast[i])) \ WrittenAfter(i) :
        /\ name \in Keys
        /\ IF i \in MergedPositions /\ name \in Range(TableOf(i).keys)
           THEN RecordOf(name) = TableOf(i).at[name]
           ELSE /\ RecordOf(name).type = "import"
                /\ RecordOf(name).node = Node(0, ast[i], 1)

----------------------------------------------------------------------------
(* C26 *)

\* The seed scan or the fixpoint loop is running or has run in this call.
MatchingStarted == pc \in {"nomatch", "fixpoint", "assemble", "returned"}

\* C26: in every state of the seed scan and of the fixpoint loop every name
\* in the dependency set is a key of the global table; no step adds a name
\* that is not a key, and no step of the seed scan, the loop, the retention
\* of imports or the assembly modifies the global table.
C26_DependenciesAreKeys ==
  /\ [](MatchingStarted => Deps \subseteq Keys)
  /\ [][ ((pc = "imports" /\ importQueue = <<>>) \/ pc \in {"nomatch", "fixpoint", "assemble"}) =>
           /\ globalDeclarations' = globalDeclarations
           /\ Range(dependencies') \ Deps \subseteq Keys ]_vars

\* A selected node references a name that is no key of the table, next to
\* names that are: the loop has run and left it out of the dependency set.
C26_Witness ==
  /\ Succeeded
  /\ iterations >= 1
  /\ Deps # {}
  /\ \E h \in Output : RefNames(h) \ Keys # {} /\ RefNames(h) \cap Keys # {}

----------------------------------------------------------------------------
(* Indexing of default exports and variable declarations *)

\* The statements the entry modules of the indexing runs are made of.
IndexStatements ==
  { "helper", "exportDefaultHelper", "exportDefaultFn", "exportDefaultClass",
    "exportDefaultValue", "limit", "pending", "twice", "maker", "importFoo" }

\* The entry modules of the indexing runs: up to MaxStmts different statements
\* in any order.
IndexSources ==
  { s \in UNION { [1..m -> IndexStatements] : m \in 0..MaxStmts } :
      \A i, j \in 1..Len(s) : i # j => s[i] # s[j] }

\* /^export default/ and /^const|^let/.
IndexPatterns ==
  { Regex(<< << "export", "default" >> >>, TRUE, FALSE),
    Regex(<< << "const" >>, << "let" >> >>, TRUE, FALSE) }

\* A call of extractPatternWithDependencies on one of IndexSources, on a disk
\* without files.
InitIndex ==
  /\ Tmpl = SyntaxTrees
  /\ sourceCode \in IndexSources
  /\ entryPoint = "extractPatternWithDependencies"
  /\ namesArgument = <<>>
  /\ patternRegex \in IndexPatterns
  /\ secondCall = FALSE
  /\ previous = <<>>
  /\ lastIndex = 0
  /\ fs = NoFiles
  /\ pc = "parse"
  /\ ast = <<>>
  /\ importQueue = <<>>
  /\ globalDeclarations = EmptyMap
  /\ resolvedImports = <<>>
  /\ unresolvedImports = <<>>
  /\ matchedPatterns = <<>>
  /\ matchDetails = <<>>
  /\ dependencies = <<>>
  /\ nodesToInclude = <<>>
  /\ previousDepsCount = 0
  /\ currentDepsCount = 0
  /\ iterations = 0
  /\ result = <<>>

SpecIndex == InitIndex /\ [][Next]_vars

----------------------------------------------------------------------------
(* C27 *)

\* findAllDeclarations has indexed the entry module and the import traversal
\* has not yet visited an import statement: the table is the module's own.
EntryIndexed == pc = "imports" /\ importQueue = ImportPositions(ast)

\* The positions of the default exports of the entry module.
DefaultExports ==
  { p \in 1..Len(ast) : Tmpl[ast[p]][1].type = "ExportDefaultDeclaration" }

\* The exported value of the default export at position p.
ExportedValue(p) == Tmpl[ast[p]][FirstChild(ast[p], 1)]

\* The record under key is the default-export record of the statement at p.
IsDefaultExportRecord(key, p) ==
  /\ RecordOf(key).type = "default-export"
  /\ RecordOf(key).node = Node(0, ast[p], 1)

\* The statements after position p that declare name at module level.
DeclaredAfter(p, name) ==
  { q \in (p + 1)..Len(ast) : name \in TopBindings(ast[q]) }

\* What both readings of the claim share: the key default is present and
\* holds the export statement; a named function or class has its name as a
\* key; default export of a bare identifier leaves a default-export record
\* under default.
DefaultExportKeys ==
  \A p \in DefaultExports :
    /\ "default" \in Keys
    /\ RecordOf("default").node = Node(0, ast[p], 1)
    /\ (/\ ExportedValue(p).type \in {"FunctionDeclaration", "ClassDeclaration"}
        /\ ExportedValue(p).name # NONE) => ExportedValue(p).name \in Keys
    /\ ExportedValue(p).type = "Identifier" =>
         /\ ExportedValue(p).name \in Keys
         /\ IsDefaultExportRecord("default", p)

----------------------------------------------------------------------------
(* C28 *)

\* The variable declarators of the entry module that have an identifier name,
\* as <<statement, node>>.
Declarators ==
  UNION { { <<ast[p], n>> :
              n \in { o \in DOMAIN Tmpl[ast[p]] :
                        /\ Tmpl[ast[p]][o].type = "VariableDeclarator"
                        /\ Tmpl[ast[p]][o].name # NONE } } :
          p \in 1..Len(ast) }

\* The record stored under the name of declarator d.
DeclaratorRecord(d) == RecordOf(Tmpl[d[1]][d[2]].name)

\* What both readings of the claim share: every declarator is recorded under
\* its name, with the declaration statement as node; an arrow function
\* initializer gives kind arrow-function; an initializer that is no function,
\* and no initializer, give kind variable.
DeclaratorsRecorded ==
  \A d \in Declarators :
    /\ Tmpl[d[1]][d[2]].name \in Keys
    /\ DeclaratorRecord(d).node = Node(0, d[1], Tmpl[d[1]][d[2]].parent)
    /\ InitType(d[1], d[2]) = "ArrowFunctionExpression" =>
         DeclaratorRecord(d).type = "arrow-function"
    /\ ~IsFunctionInit(d[1], d[2]) => DeclaratorRecord(d).type = "variable"

\* C28 as stated: a function expression initializer gives kind
\* arrow-function.
C28_VariableKind ==
  EntryIndexed =>
    /\ DeclaratorsRecorded
    /\ \A d \in Declarators :
         InitType(d[1], d[2]) = "FunctionExpression" =>
           DeclaratorRecord(d).type = "arrow-function"

\* C28: a variable declarator with an identifier name is recorded with kind
\* arrow-function when its initializer is an arrow function expression, and
\* with kind variable for every other initializer, a function expression
\* included, and for no initializer.
C28_VariableKindArrowOnly ==
  EntryIndexed =>
    /\ DeclaratorsRecorded
    /\ \A d \in Declarators :
         InitType(d[1], d[2]) = "FunctionExpression" =>
           DeclaratorRecord(d).type = "variable"

\* const maker = function () {...} and const twice = () => helper() were
\* indexed in one module.
C28_Witness ==
  /\ EntryIndexed
  /\ { "maker", "twice" } \subseteq Keys
  /\ RecordOf("maker").type = "variable"
  /\ RecordOf("twice").type = "arrow-function"

----------------------------------------------------------------------------
(* C29 *)

\* The number of function declarations around node h.
FunctionLevels(h) == Cardinality(Enclosing(h, "FunctionDeclaration"))

\* C29: every record with a parent function carries a depth that is an
\* integer >= 0 counted from the nearest enclosing function: a function
\* declared directly in the body of a top-level function is recorded, by
\* every write and in the table after indexing, with its parent function and
\* depth 0, and one declared a function level further down with a depth one
\* greater.
C29_NestingDepth ==
  IndexingDone =>
    LET writes == EntryWrites IN
    /\ \A name \in Keys :
         RecordOf(name).parentFunction # NONE =>
           /\ Len(RecordOf(name).depth) = 1
           /\ RecordOf(name).depth[1] >= 0
    /\ \A i \in 1..Len(writes) :
         (/\ NodeAt(writes[i][2].node).type = "FunctionDeclaration"
          /\ writes[i][2].parentFunction # NONE) =>
           writes[i][2].depth = << FunctionLevels(writes[i][2].node) - 1 >>
    /\ \A name \in FunctionRecords :
         FunctionLevels(RecordOf(name).node) >= 1 =>
           /\ RecordOf(name).parentFunction # NONE
           /\ RecordOf(name).depth = << FunctionLevels(RecordOf(name).node) - 1 >>

----------------------------------------------------------------------------
(* C30 *)

\* The import statements of the entry whose specifier is recorded as resolved.
ResolvedPositions ==
  { i \in Range(ImportPositions(ast)) : SpecifierOf(i) \in Range(resolvedImports) }

\* C30: in every state, the import statement of a specifier recorded as
\* resolved is not in the output node set and no record of the global table
\* points at it, whatever the pattern and the dependency set.
C30_ResolvedImportNotInOutput ==
  \A i \in ResolvedPositions :
    /\ Node(0, ast[i], 1) \notin Output
    /\ \A name \in Keys : RecordOf(name).node # Node(0, ast[i], 1)

\* A successful call whose entry imports a specifier that resolved to a file
\* that could not be parsed, with a selected declaration that references the
\* imported local name.
C30_Witness ==
  /\ Succeeded
  /\ \E i \in ResolvedPositions :
       /\ ~parseFile(fs, i, ResolvedFile(i)).ok
       /\ \E h \in Output : Range(ImportLocals(ast[i])) \cap RefNames(h) # {}

====
